---- MODULE Spec2Model ----
(***************************************************************************)
(* Model of the ai-playground repository.                                  *)
(*                                                                         *)
(* Part 1: the candidate/job MatchingEngine of                             *)
(* application-tracking-system/ats-backend/src/nlp/matcher.py.            *)
(*                                                                         *)
(* A text is a sequence of raw words.  TfidfVectorizer(max_features=500,   *)
(* stop_words="english") lower-cases each word, keeps the words of two or  *)
(* more characters, drops the English stop words, and weights every term   *)
(* of the two-document corpus by tf * idf.  A floating-point number is a   *)
(* fixed-point integer with SCALE units to 1.0, and the result of each     *)
(* vector operation (norm, division by the norm, dot product) is rounded   *)
(* to the nearest unit, as the double arithmetic of the library rounds to  *)
(* the nearest multiple of its own, much smaller, unit.                    *)
(***************************************************************************)
EXTENDS Integers, Sequences, FiniteSets, TLC

\* ------------------------------------------------------------------ bounds
MaxTextLen == 2
MaxCandidates == 2

\* ------------------------------------------------------------ the state
\* sklearn_installed: whether scikit-learn can be imported in the process.
\* engine: "none" before MatchingEngine() is constructed, then
\* "constructed".  vectorizer, tfidf_matrix: the fields _vectorizer and
\* _tfidf_matrix of the engine.  call: the call made on it, its arguments,
\* and once it has run its outcome and result.
VARIABLES sklearn_installed, engine, vectorizer, tfidf_matrix, call

\* Concurrent calls.  shared: whether the threads call one MatchingEngine
\* or each its own.  engines: the _vectorizer of each engine.  threads: for
\* each thread its call, its position in it, its local variables and its
\* result.
VARIABLES shared, engines, threads

concurrentVars == <<shared, engines, threads>>

\* no thread
ConcurrentIdle ==
    /\ shared = FALSE
    /\ engines = <<>>
    /\ threads = <<>>

\* The desktop server (part 2).  request: the call made on the server, its
\* filename, and once it has run its outcome and result.  target: what
\* DESKTOP_PATH / filename is once symbolic links are followed, and whether
\* its resolved path lies inside the desktop directory.  opened: the files
\* opened for reading.
VARIABLES request, target, opened

desktopVars == <<request, target, opened>>

\* no call is made on the desktop server
DesktopIdle ==
    /\ request = [op |-> "none", filename |-> <<>>, outcome |-> "pending",
                  isError |-> FALSE, text |-> "", value |-> <<>>]
    /\ target = [kind |-> "absent", resolved |-> "inside"]
    /\ opened = {}

\* The memory server (part 3).  memories: the rows of the memories table.
\* prune: the position of a prune_memories call, the count it read, the
\* rows it fetched and the rows it has still to delete.  remember: a call
\* of the remember tool: whether the embeddings of its contents are
\* similar, the last id the table's SERIAL column gave out, the add_memory
\* task of each content, and whether the call has returned.
VARIABLES memories, prune, remember

memoryVars == <<memories, prune, remember>>

NoRemember == [similar |-> FALSE, serial |-> 0, tasks |-> <<>>, outcome |-> "none"]

\* an empty table, no call of prune_memories and no call of remember
MemoryIdle ==
    /\ memories = {}
    /\ prune = [pc |-> "none", count |-> 0, rows |-> {}, remaining |-> {}]
    /\ remember = NoRemember

\* The SMS server (part 4).  sms: a send_sms call, its message, what the
\* HTTP request does, and once it has run its response.  failure_log: the
\* lines of .logs/sms_failures.jsonl.  log_writable: whether that file can
\* be opened for appending.
VARIABLES sms, failure_log, log_writable

smsVars == <<sms, failure_log, log_writable>>

NoHttp == [kind |-> "none", status |-> 0, body |-> "none"]

NoSms ==
    [message |-> [phone_number |-> "", message_body |-> ""], http |-> NoHttp,
     outcome |-> "pending", success |-> FALSE, message_id |-> "",
     error |-> "None"]

\* no call of send_sms
SmsIdle ==
    /\ sms = NoSms
    /\ failure_log = <<>>
    /\ log_writable = TRUE

\* The pagination server (part 5).  listing: a client that lists a
\* collection page by page: the items and the page size of the list tool,
\* the cursor of its first call, the cursor of the call being made, what
\* the last call returned, the pages received so far one after the other,
\* and the number of calls made.
VARIABLES listing

paginationVars == <<listing>>

\* cursor=None, and a cursor that is a string
NoCursor == [none |-> TRUE, text |-> <<>>]
Cursor(text) == [none |-> FALSE, text |-> text]

NoListing ==
    [items |-> <<>>, page_size |-> 0, first |-> NoCursor, cursor |-> NoCursor,
     pc |-> "none", outcome |-> "pending", page_items |-> <<>>,
     next_cursor |-> NoCursor, received |-> <<>>, calls |-> 0]

\* no client of the pagination server
PaginationIdle == listing = NoListing

\* -------------------------------------------------- fixed-point arithmetic
\* The number 1.0 is SCALE units.
SCALE == 100
\* idf = ln((1 + n) / (1 + df)) + 1 with n = 2 documents:
\* df = 2 gives 1.0, df = 1 gives 1.405...; kept as the ratio 5 : 7.
IdfCommon == 5
IdfRare == 7

\* a / b rounded to the nearest integer, for a >= 0 and b > 0
RoundDiv(a, b) == (2 * a + b) \div (2 * b)

\* a power of two whose square exceeds n
RECURSIVE SqrtBound(_, _)
SqrtBound(n, h) == IF h * h > n THEN h ELSE SqrtBound(n, 2 * h)

\* floor of the square root of n, searched in lo..hi
RECURSIVE ISqrtIn(_, _, _)
ISqrtIn(n, lo, hi) ==
    IF lo = hi THEN lo
    ELSE LET mid == (lo + hi + 1) \div 2
         IN  IF mid * mid <= n
             THEN ISqrtIn(n, mid, hi)
             ELSE ISqrtIn(n, lo, mid - 1)

\* the square root of n rounded to the nearest integer
RoundSqrt(n) ==
    LET r == ISqrtIn(n, 0, SqrtBound(n, 1))
    IN  IF n - r * r > r THEN r + 1 ELSE r

\* ------------------------------------------------------------------ texts
Words == {"Python", "python", "react", "the", "c"}

Texts == UNION {[1..n -> Words] : n \in 0..MaxTextLen}

\* str.lower() as applied by the vectorizer's preprocessor
Lower(w) == IF w = "Python" THEN "python" ELSE w

\* the members of sklearn's ENGLISH_STOP_WORDS that occur in Words
StopWords == {"the"}

\* token_pattern r"(?u)\b\w\w+\b": a token has at least two characters
TokenPattern(w) == Len(w) >= 2

\* every term a text can contribute, in the sorted order of vocabulary_
SortedTerms == <<"c", "python", "react", "the">>

\* build_analyzer() of a vectorizer made with lowercase=False: the words
\* are tokenized as they are written
Analyze_case_sensitive(text) ==
    LET Keep(w) == TokenPattern(w) /\ w \notin StopWords
    IN  SelectSeq(text, Keep)

\* build_analyzer(): preprocess, tokenize, remove stop words
Analyze(text) ==
    LET lowered == [i \in 1..Len(text) |-> Lower(text[i])]
        Keep(w) == TokenPattern(w) /\ w \notin StopWords
    IN  SelectSeq(lowered, Keep)

\* number of occurrences of term t in a token sequence
TermCount(t, tokens) == Cardinality({i \in 1..Len(tokens) : tokens[i] = t})

Range(s) == {s[i] : i \in 1..Len(s)}

\* the sum of a sequence, by halves
RECURSIVE SumSeq(_)
SumSeq(s) ==
    IF s = <<>> THEN 0
    ELSE IF Len(s) = 1 THEN s[1]
    ELSE SumSeq(SubSeq(s, 1, Len(s) \div 2))
             + SumSeq(SubSeq(s, Len(s) \div 2 + 1, Len(s)))

Reverse(s) == [i \in 1..Len(s) |-> s[Len(s) + 1 - i]]

\* ------------------------------------------------------ TfidfVectorizer
max_features == 500

\* The field _vectorizer: loaded is FALSE while it is None; instance tells
\* the TfidfVectorizer objects of an engine apart, the first one it makes
\* being 1, and is 0 while the engine has made none; vocabulary_ holds the
\* feature names of the last successful fit, sorted.
NoVectorizer == [loaded |-> FALSE, instance |-> 0, vocabulary_ |-> <<>>]

\* lines 24-28 without the test of line 24: every access makes a new
\* TfidfVectorizer
VectorizerProperty_always_new(v) ==
    [loaded |-> TRUE, instance |-> v.instance + 1, vocabulary_ |-> <<>>]

\* the vectorizer property, lines 21-28, with the library installed: the
\* object the engine holds, or a new one when it holds none
VectorizerProperty(v) ==
    IF v.loaded
    THEN v
    ELSE [loaded |-> TRUE, instance |-> v.instance + 1, vocabulary_ |-> <<>>]

\* the corpus frequency of every term: its count in the two documents
CorpusFrequency(terms, docs) ==
    [t \in terms |-> TermCount(t, docs[1]) + TermCount(t, docs[2])]

\* a term that no other term is less frequent than
LeastFrequent(terms, tfs) ==
    CHOOSE t \in terms : \A u \in terms : tfs[t] <= tfs[u]

\* (-tfs).argsort()[:limit]: the limit terms of highest frequency; which
\* of the equally frequent terms are kept is the sort's choice.  The
\* terms left after one removal are computed once, then cut further.
RECURSIVE MostFrequent(_, _, _)
MostFrequent(terms, tfs, limit) ==
    IF Cardinality(terms) <= limit
    THEN terms
    ELSE CHOOSE kept \in {MostFrequent(rest, tfs, limit) :
                             rest \in {terms \ {LeastFrequent(terms, tfs)}}} :
             TRUE

\* _limit_features: keep the max_features terms of highest corpus frequency
LimitFeatures(terms, docs) ==
    IF Cardinality(terms) <= max_features
    THEN terms
    ELSE CHOOSE kept \in {MostFrequent(x[1], x[2], max_features) :
                             x \in {<<terms, CorpusFrequency(terms, docs)>>}} :
             TRUE

\* the term "w001", "w002", ... of number i
NumberedTerm(i) ==
    IF i < 10 THEN "w00" \o ToString(i)
    ELSE IF i < 100 THEN "w0" \o ToString(i)
    ELSE "w" \o ToString(i)

\* one term more than a vocabulary holds, in sorted order
NumberedTerms == [i \in 1..(max_features + 1) |-> NumberedTerm(i)]

\* the terms of a vocabulary in sorted order
SortTerms(vocab) ==
    LET InVocab(t) == t \in vocab
    IN  IF vocab \subseteq Range(SortedTerms)
        THEN SelectSeq(SortedTerms, InVocab)
        ELSE SelectSeq(SortedTerms \o NumberedTerms, InVocab)

\* smoothed idf of a term for a corpus of two documents
Idf(t, docs) ==
    LET df == Cardinality({d \in 1..2 : t \in Range(docs[d])})
    IN  IF df = 2 THEN SCALE ELSE RoundDiv(SCALE * IdfRare, IdfCommon)

\* sum of the products of two rows, before rounding
SumOfProducts(x, y) == SumSeq([j \in 1..Len(x) |-> x[j] * y[j]])

\* sklearn.preprocessing.normalize(row, norm="l2"): every weight divided
\* by the row's norm; a row of norm 0 is left as it is
Normalize(row) ==
    LET norm == RoundSqrt(SumOfProducts(row, row))
    IN  IF norm = 0 THEN row
        ELSE [j \in 1..Len(row) |-> RoundDiv(row[j] * SCALE, norm)]

\* one row of the tf-idf matrix: tf * idf of every feature in one
\* document, normalised (TfidfVectorizer's norm="l2")
TfidfWeights(features, d, docs) ==
    [j \in 1..Len(features) |->
        TermCount(features[j], docs[d]) * Idf(features[j], docs)]

TfidfRow(features, d, docs) == Normalize(TfidfWeights(features, d, docs))

\* the fit of instance v on the analysed documents, whose terms are
\* features.  With no term it raises ValueError("empty vocabulary; perhaps
\* the documents only contain stop words") and v keeps its previous fit;
\* otherwise v is refitted and the matrix has one row per document.
FitFeatures(v, docs, features) ==
    IF features = <<>>
    THEN [raised |-> TRUE, error |-> "ValueError",
          message |-> "empty vocabulary; perhaps the documents only contain stop words",
          vectorizer |-> v,
          matrix |-> <<>>]
    ELSE [raised |-> FALSE,
          vectorizer |-> [v EXCEPT !.vocabulary_ = features],
          matrix |-> <<TfidfRow(features, 1, docs),
                       TfidfRow(features, 2, docs)>>]

\* "fit once": a vectorizer that holds a vocabulary only transforms the
\* documents, over that vocabulary
FitDocs_fitted_once(v, docs) ==
    IF v.vocabulary_ # <<>>
    THEN FitFeatures(v, docs, v.vocabulary_)
    ELSE FitFeatures(v, docs,
             SortTerms(LimitFeatures(Range(docs[1]) \cup Range(docs[2]), docs)))

\* the vocabulary of the analysed documents, limited and sorted
FitDocs(v, docs) ==
    FitFeatures(v, docs,
        SortTerms(LimitFeatures(Range(docs[1]) \cup Range(docs[2]), docs)))

\* self.vectorizer.fit_transform(documents) on an engine whose _vectorizer
\* is v.  The vectorizer property (lines 21-28) imports TfidfVectorizer
\* when _vectorizer is None; without scikit-learn the import statement
\* raises ModuleNotFoundError and _vectorizer stays None.
fit_transform(v, documents) ==
    IF ~v.loaded /\ ~sklearn_installed
    THEN [raised |-> TRUE, error |-> "ModuleNotFoundError",
          message |-> "No module named 'sklearn'",
          vectorizer |-> v, matrix |-> <<>>]
    ELSE FitDocs(VectorizerProperty(v),
                 <<Analyze(documents[1]), Analyze(documents[2])>>)

\* vectorizer.get_feature_names_out()
get_feature_names_out(v) == v.vocabulary_

\* ---------------------------------------------------- cosine_similarity
\* the dot product of two rows
Dot(x, y) == RoundDiv(SumOfProducts(x, y), SCALE)

\* cosine_similarity(X, Y): both rows are normalised, then multiplied
cosine_similarity(x, y) == Dot(Normalize(x), Normalize(y))

\* matrix row .nonzero()[1]: the feature indices with a non-zero weight
Nonzero(row) == {j \in 1..Len(row) : row[j] # 0}

\* ------------------------------------------------------- MatchingEngine
\* lines 54-57 with cosine_similarity(tfidf_matrix[0:1], tfidf_matrix[0:1]):
\* the resume's row compared with itself
ScoreOfFit_same_row(fit, max_score) ==
    IF fit.raised
    THEN [outcome |-> fit.error, message |-> fit.message, score |-> 0,
          vectorizer |-> fit.vectorizer]
    ELSE [outcome |-> "return",
          score |-> cosine_similarity(fit.matrix[1], fit.matrix[1])
                        * max_score,
          vectorizer |-> fit.vectorizer]

\* lines 54-57 with score = float(similarity[0][0]): the similarity is
\* returned without being scaled by max_score
ScoreOfFit_unscaled(fit, max_score) ==
    IF fit.raised
    THEN [outcome |-> fit.error, message |-> fit.message, score |-> 0,
          vectorizer |-> fit.vectorizer]
    ELSE [outcome |-> "return",
          score |-> cosine_similarity(fit.matrix[1], fit.matrix[2]),
          vectorizer |-> fit.vectorizer]

\* lines 54-57 of calculate_match_score, given what fit_transform did:
\* the exception is propagated, or the similarity of the two rows is
\* scaled by max_score
ScoreOfFit(fit, max_score) ==
    IF fit.raised
    THEN [outcome |-> fit.error, message |-> fit.message, score |-> 0,
          vectorizer |-> fit.vectorizer]
    ELSE [outcome |-> "return",
          score |-> cosine_similarity(fit.matrix[1], fit.matrix[2])
                        * max_score,
          vectorizer |-> fit.vectorizer]

\* lines 44-47 with "except ImportError: return 0.0"
calculate_match_score_import_ignored(v, resume_text, job_description, max_score) ==
    IF ~sklearn_installed
    THEN [outcome |-> "return", score |-> 0, vectorizer |-> v]
    ELSE ScoreOfFit(fit_transform(v, <<resume_text, job_description>>),
                    max_score)

\* calculate_match_score on an engine whose _vectorizer is v: the outcome,
\* the returned score (in units of 1/SCALE) and the vectorizer afterwards.
\* Lines 44-47: when cosine_similarity cannot be imported, ImportError is
\* raised with a message of the function's own.
calculate_match_score(v, resume_text, job_description, max_score) ==
    IF ~sklearn_installed
    THEN [outcome |-> "ImportError",
          message |-> "scikit-learn is required for matching",
          score |-> 0, vectorizer |-> v]
    ELSE ScoreOfFit(fit_transform(v, <<resume_text, job_description>>),
                    max_score)

\* feature_names[features] as a set
WordsAt(feature_names, features) == {feature_names[j] : j \in features}

\* lines 86-89 with missing_skills = list(job_words ^ resume_words)
SkillsOfWords_missing_either_way(job_words, resume_words, v) ==
    [outcome |-> "return",
     missing_skills |-> (job_words \ resume_words)
                            \cup (resume_words \ job_words),
     matched_skills |-> job_words \cap resume_words,
     vectorizer |-> v]

\* lines 86-89 with matched_skills = list(resume_words)
SkillsOfWords_matched_resume_words(job_words, resume_words, v) ==
    [outcome |-> "return",
     missing_skills |-> job_words \ resume_words,
     matched_skills |-> resume_words,
     vectorizer |-> v]

\* lines 86-89: list(set) has no defined order, so each collection is
\* kept as a set
SkillsOfWords(job_words, resume_words, v) ==
    [outcome |-> "return",
     missing_skills |-> job_words \ resume_words,
     matched_skills |-> job_words \cap resume_words,
     vectorizer |-> v]

\* lines 77-89 with job_features and resume_features read from each
\* other's row
SkillsOfFit_rows_swapped(fit) ==
    IF fit.raised
    THEN [outcome |-> fit.error, message |-> fit.message,
          missing_skills |-> {}, matched_skills |-> {},
          vectorizer |-> fit.vectorizer]
    ELSE SkillsOfWords(
             WordsAt(get_feature_names_out(fit.vectorizer),
                     Nonzero(fit.matrix[1])),
             WordsAt(get_feature_names_out(fit.vectorizer),
                     Nonzero(fit.matrix[2])),
             fit.vectorizer)

\* lines 77-89 of extract_missing_skills, given what fit_transform did:
\* the exception is propagated, or the words of the job's row and of the
\* resume's row are looked up in the vectorizer's feature names
SkillsOfFit(fit) ==
    IF fit.raised
    THEN [outcome |-> fit.error, message |-> fit.message,
          missing_skills |-> {}, matched_skills |-> {},
          vectorizer |-> fit.vectorizer]
    ELSE SkillsOfWords(
             WordsAt(get_feature_names_out(fit.vectorizer),
                     Nonzero(fit.matrix[2])),
             WordsAt(get_feature_names_out(fit.vectorizer),
                     Nonzero(fit.matrix[1])),
             fit.vectorizer)

\* the feature indices of a row whose weight exceeds threshold
Above(row, threshold) == {j \in 1..Len(row) : row[j] > threshold}

\* lines 77-89 with the features of a row taken where its weight exceeds
\* threshold
SkillsOfFit_above(fit, threshold) ==
    IF fit.raised
    THEN [outcome |-> fit.error, message |-> fit.message,
          missing_skills |-> {}, matched_skills |-> {},
          vectorizer |-> fit.vectorizer]
    ELSE SkillsOfWords(
             WordsAt(get_feature_names_out(fit.vectorizer),
                     Above(fit.matrix[2], threshold)),
             WordsAt(get_feature_names_out(fit.vectorizer),
                     Above(fit.matrix[1], threshold)),
             fit.vectorizer)

extract_missing_skills_thresholded(v, resume_text, job_description, threshold) ==
    SkillsOfFit_above(fit_transform(v, <<resume_text, job_description>>),
                      threshold)

\* extract_missing_skills: the outcome, the two returned collections and
\* the vectorizer afterwards; threshold is not read
extract_missing_skills(v, resume_text, job_description, threshold) ==
    SkillsOfFit(fit_transform(v, <<resume_text, job_description>>))

\* ------------------------------------------------------ rank_candidates
\* A candidate is a dict: a function from its keys to their values.
Emails == {"ann", "bob"}

CandidatePool ==
    {[email |-> e, resume_text |-> r] :
         e \in Emails, r \in {<<"Python">>, <<"react", "python">>}}
    \cup {[email |-> "ann", resume_text |-> <<"the">>],
          [email |-> "bob"],
          [email |-> "ann", resume_text |-> <<"python", "c">>,
           match_score |-> 999, matched_skills |-> {"c"}]}

CandidateLists == UNION {[1..n -> CandidatePool] : n \in 0..MaxCandidates}

\* threshold: float = 0.01, in units of 1/SCALE
DefaultThreshold == 1

\* candidate.get("resume_text", "")
ResumeOf(candidate) ==
    IF "resume_text" \in DOMAIN candidate
    THEN candidate["resume_text"]
    ELSE <<>>

\* {"match_score": ..., "missing_skills": ..., "matched_skills": ..., **candidate}
RankedCandidate_candidate_last(candidate, score, missing_skills, matched_skills) ==
    LET added == [match_score |-> score,
                  missing_skills |-> missing_skills,
                  matched_skills |-> matched_skills]
    IN  [k \in DOMAIN candidate \cup DOMAIN added |->
            IF k \in DOMAIN candidate THEN candidate[k] ELSE added[k]]

\* {**candidate, "match_score": ..., "missing_skills": ..., "matched_skills": ...}
RankedCandidate(candidate, score, missing_skills, matched_skills) ==
    LET added == [match_score |-> score,
                  missing_skills |-> missing_skills,
                  matched_skills |-> matched_skills]
    IN  [k \in DOMAIN candidate \cup DOMAIN added |->
            IF k \in DOMAIN added THEN added[k] ELSE candidate[k]]

\* binary insertion as list.sort does it: x goes to the right of every
\* element whose key is not greater than its own
RECURSIVE InsertByKey(_, _)
InsertByKey(sorted, x) ==
    IF sorted = <<>> THEN <<x>>
    ELSE IF x.match_score < Head(sorted).match_score
         THEN <<x>> \o sorted
         ELSE <<Head(sorted)>> \o InsertByKey(Tail(sorted), x)

RECURSIVE SortAscending(_)
SortAscending(s) ==
    IF s = <<>> THEN <<>>
    ELSE InsertByKey(SortAscending(SubSeq(s, 1, Len(s) - 1)), s[Len(s)])

\* list.sort(key=lambda x: x["match_score"]) without reverse=True
SortByScore_ascending(s) == SortAscending(s)

\* sorted(..., key=...)[::-1]: ascending and stable, then reversed
SortByScore_then_reversed(s) == Reverse(SortAscending(s))

\* list.sort(key=lambda x: x["match_score"], reverse=True): the list is
\* reversed, sorted ascending and stably, and reversed again
SortByScoreReverse(s) == Reverse(SortAscending(Reverse(s)))

\* the result of rank_candidates when the call with result r raised: the
\* exception leaves the method, ranked_candidates is dropped with the
\* frame, and the caller's list is as the loop left it
Raised(r, candidates) ==
    [outcome |-> r.outcome, message |-> r.message, ranked |-> <<>>,
     candidates |-> candidates, vectorizer |-> r.vectorizer]

\* the for loop of rank_candidates from candidate i on, with the records
\* appended so far; an exception of either call ends the loop
RECURSIVE RankLoop(_, _, _, _, _, _)

\* lines 117-123 with candidate.update({...}) and
\* ranked_candidates.append(candidate): the caller's mapping is written
RankAppend_updates_candidate(candidates, job_description, max_score, i, ranked_candidates, s, e) ==
    IF e.outcome # "return"
    THEN Raised(e, candidates)
    ELSE RankLoop(e.vectorizer,
                  [candidates EXCEPT
                       ![i] = RankedCandidate(candidates[i], s.score,
                                  e.missing_skills, e.matched_skills)],
                  job_description, max_score, i + 1,
                  Append(ranked_candidates,
                         RankedCandidate(candidates[i], s.score,
                                         e.missing_skills, e.matched_skills)))

\* lines 117-123, given the results s and e of the two calls for candidate i
RankAppend(candidates, job_description, max_score, i, ranked_candidates, s, e) ==
    IF e.outcome # "return"
    THEN Raised(e, candidates)
    ELSE RankLoop(e.vectorizer, candidates, job_description, max_score, i + 1,
                  Append(ranked_candidates,
                         RankedCandidate(candidates[i], s.score,
                                         e.missing_skills, e.matched_skills)))

\* lines 112-115 inside try ... except Exception: continue: a candidate
\* whose scoring raises is left out of the ranking
RankExtract_skips_failed(candidates, job_description, max_score, i, ranked_candidates, s) ==
    IF s.outcome # "return"
    THEN RankLoop(s.vectorizer, candidates, job_description, max_score,
                  i + 1, ranked_candidates)
    ELSE RankAppend(candidates, job_description, max_score, i,
                    ranked_candidates, s,
                    extract_missing_skills(s.vectorizer,
                                           ResumeOf(candidates[i]),
                                           job_description, DefaultThreshold))

\* lines 113-115, given the result s of calculate_match_score for candidate i
RankExtract(candidates, job_description, max_score, i, ranked_candidates, s) ==
    IF s.outcome # "return"
    THEN Raised(s, candidates)
    ELSE RankAppend(candidates, job_description, max_score, i,
                    ranked_candidates, s,
                    extract_missing_skills(s.vectorizer,
                                           ResumeOf(candidates[i]),
                                           job_description, DefaultThreshold))

\* lines 111-112 with a resume_text that is not reset: the score of a
\* candidate is computed on its resume followed by the previous one's
RankLoop_carries_previous(v, candidates, job_description, max_score, i, ranked_candidates) ==
    IF i > Len(candidates)
    THEN [outcome |-> "return",
          ranked |-> SortByScoreReverse(ranked_candidates),
          candidates |-> candidates,
          vectorizer |-> v]
    ELSE RankExtract(candidates, job_description, max_score, i,
                     ranked_candidates,
                     calculate_match_score(v,
                         ResumeOf(candidates[i])
                             \o (IF i > 1 THEN ResumeOf(candidates[i - 1])
                                          ELSE <<>>),
                         job_description, max_score))

RankLoop(v, candidates, job_description, max_score, i, ranked_candidates) ==
    IF i > Len(candidates)
    THEN [outcome |-> "return",
          ranked |-> SortByScoreReverse(ranked_candidates),
          candidates |-> candidates,
          vectorizer |-> v]
    ELSE RankExtract(candidates, job_description, max_score, i,
                     ranked_candidates,
                     calculate_match_score(v, ResumeOf(candidates[i]),
                                           job_description, max_score))

\* the ranking cut to its best record
BestOnly(r) ==
    [r EXCEPT !.ranked = IF r.ranked = <<>> THEN <<>> ELSE <<Head(r.ranked)>>]

rank_candidates_best_only(v, candidates, job_description, max_score) ==
    BestOnly(RankLoop(v, candidates, job_description, max_score, 1, <<>>))

rank_candidates(v, candidates, job_description, max_score) ==
    RankLoop(v, candidates, job_description, max_score, 1, <<>>)

\* ------------------------------------------------------------ the calls
matcherVars == <<sklearn_installed, engine, vectorizer, tfidf_matrix, call>>

vars ==
    <<matcherVars, concurrentVars, desktopVars, memoryVars, smsVars,
      paginationVars>>

MaxScores == {-1, 1, 100}
Thresholds == {0, DefaultThreshold}

NoCall ==
    [op |-> "none", resume_text |-> <<>>, job_description |-> <<>>,
     max_score |-> 0, threshold |-> 0, candidates |-> <<>>,
     before |-> <<>>, outcome |-> "pending", message |-> "", score |-> 0,
     missing_skills |-> {}, matched_skills |-> {}, ranked |-> <<>>]

\* a pending call and its arguments: the texts taken from T, the candidate
\* lists from L, the other fields from base
CallOver(c, base, T, L) ==
    \/ \E a \in T, b \in T, m \in MaxScores :
           c = [base EXCEPT !.op = "calculate_match_score",
                              !.resume_text = a, !.job_description = b,
                              !.max_score = m]
    \/ \E a \in T, b \in T, t \in Thresholds :
           c = [base EXCEPT !.op = "extract_missing_skills",
                              !.resume_text = a, !.job_description = b,
                              !.threshold = t]
    \/ \E cs \in L, b \in T, m \in MaxScores :
           c = [base EXCEPT !.op = "rank_candidates", !.candidates = cs,
                              !.job_description = b, !.max_score = m]

\* the calls a behaviour can start with
IsCall(c) == CallOver(c, NoCall, Texts, CandidateLists)

Pending(op) ==
    /\ engine = "constructed"
    /\ call.op = op
    /\ call.outcome = "pending"

\* an engine on which no call is made
MatcherIdle ==
    /\ sklearn_installed = TRUE
    /\ engine = "constructed"
    /\ vectorizer = NoVectorizer
    /\ tfidf_matrix = "None"
    /\ call = NoCall

\* what each part leaves alone
matcherRest ==
    <<concurrentVars, desktopVars, memoryVars, smsVars, paginationVars>>
concurrentRest ==
    <<matcherVars, desktopVars, memoryVars, smsVars, paginationVars>>
desktopRest ==
    <<matcherVars, concurrentVars, memoryVars, smsVars, paginationVars>>
memoryRest ==
    <<matcherVars, concurrentVars, desktopVars, smsVars, paginationVars>>
smsRest ==
    <<matcherVars, concurrentVars, desktopVars, memoryVars, paginationVars>>
paginationRest ==
    <<matcherVars, concurrentVars, desktopVars, memoryVars, smsVars>>

MatcherOnly ==
    ConcurrentIdle /\ DesktopIdle /\ MemoryIdle /\ SmsIdle /\ PaginationIdle
ConcurrentOnly ==
    MatcherIdle /\ DesktopIdle /\ MemoryIdle /\ SmsIdle /\ PaginationIdle
DesktopOnly ==
    MatcherIdle /\ ConcurrentIdle /\ MemoryIdle /\ SmsIdle /\ PaginationIdle
MemoryOnly ==
    MatcherIdle /\ ConcurrentIdle /\ DesktopIdle /\ SmsIdle /\ PaginationIdle
SmsOnly ==
    MatcherIdle /\ ConcurrentIdle /\ DesktopIdle /\ MemoryIdle
        /\ PaginationIdle
PaginationOnly ==
    MatcherIdle /\ ConcurrentIdle /\ DesktopIdle /\ MemoryIdle /\ SmsIdle

\* __init__, followed by one call with its arguments
Init ==
    /\ sklearn_installed = TRUE
    /\ engine = "constructed"
    /\ vectorizer = NoVectorizer
    /\ tfidf_matrix = "None"
    /\ IsCall(call)
    /\ MatcherOnly

\* the call ends with result r: its outcome and values are recorded and the
\* engine holds the vectorizer the call left
Completes(r) ==
    \E result \in {r} :
        /\ vectorizer' = result.vectorizer
        /\ call' = [k \in DOMAIN call |->
                       IF k \in DOMAIN result THEN result[k] ELSE call[k]]
        /\ UNCHANGED <<sklearn_installed, engine, tfidf_matrix>>
        /\ UNCHANGED matcherRest

CalculateMatchScore ==
    /\ Pending("calculate_match_score")
    /\ Completes(calculate_match_score(vectorizer, call.resume_text,
                                       call.job_description, call.max_score))

ExtractMissingSkills ==
    /\ Pending("extract_missing_skills")
    /\ Completes(extract_missing_skills(vectorizer, call.resume_text,
                                        call.job_description, call.threshold))

RankCandidates ==
    /\ Pending("rank_candidates")
    /\ Completes(rank_candidates(vectorizer, call.candidates,
                                 call.job_description, call.max_score))

Next ==
    \/ CalculateMatchScore
    \/ ExtractMissingSkills
    \/ RankCandidates

Spec == Init /\ [][Next]_vars

\* ------------------------------------------------- construction and import
\* the texts of at most one word
ShortTexts == {t \in Texts : Len(t) <= 1}

\* a process with or without scikit-learn, before MatchingEngine() is called
InitLazy ==
    /\ sklearn_installed \in BOOLEAN
    /\ engine = "none"
    /\ vectorizer = NoVectorizer
    /\ tfidf_matrix = "None"
    /\ CallOver(call, NoCall, ShortTexts, CandidateLists)
    /\ MatcherOnly

\* MatchingEngine(): __init__ sets both fields to None
Construct ==
    /\ engine = "none"
    /\ engine' = "constructed"
    /\ vectorizer' = NoVectorizer
    /\ tfidf_matrix' = "None"
    /\ UNCHANGED <<sklearn_installed, call>>
    /\ UNCHANGED matcherRest

NextLazy ==
    \/ Construct
    \/ CalculateMatchScore
    \/ ExtractMissingSkills
    \/ RankCandidates

SpecLazy == InitLazy /\ [][NextLazy]_vars

\* ------------------------------------------------ rankings and thresholds
\* a new engine, with scikit-learn installed
NewEngine ==
    /\ sklearn_installed = TRUE
    /\ engine = "constructed"
    /\ vectorizer = NoVectorizer
    /\ tfidf_matrix = "None"

\* one call of rank_candidates, for a job description of at most one word
InitRanking ==
    /\ NewEngine
    /\ \E cs \in CandidateLists, b \in ShortTexts, m \in MaxScores :
           call = [NoCall EXCEPT !.op = "rank_candidates", !.candidates = cs,
                                 !.job_description = b, !.max_score = m]
    /\ MatcherOnly

NextRanking == RankCandidates

SpecRanking == InitRanking /\ [][NextRanking]_vars

\* 0, the default 0.01, and 0.9
WideThresholds == Thresholds \cup {(9 * SCALE) \div 10}

\* one call of extract_missing_skills, with a threshold small or large
InitThreshold ==
    /\ NewEngine
    /\ \E a \in Texts, b \in Texts, t \in WideThresholds :
           call = [NoCall EXCEPT !.op = "extract_missing_skills",
                                 !.resume_text = a, !.job_description = b,
                                 !.threshold = t]
    /\ MatcherOnly

NextThreshold == ExtractMissingSkills

SpecThreshold == InitThreshold /\ [][NextThreshold]_vars

\* ------------------------------------------------------------ long texts
\* the first n numbered terms, one after the other
LongText(n) == SubSeq(NumberedTerms, 1, n)

\* short texts, alone or followed by one term less than max_features, by
\* max_features terms or by one term more
LimitTexts ==
    {p \o LongText(n) :
         p \in {<<>>, <<"Python">>, <<"python", "react">>,
                <<"python", "react", "react">>},
         n \in {0, max_features - 1, max_features, max_features + 1}}

\* one call of extract_missing_skills on two long texts
InitLimit ==
    /\ NewEngine
    /\ \E a \in LimitTexts, b \in LimitTexts :
           call = [NoCall EXCEPT !.op = "extract_missing_skills",
                                 !.resume_text = a, !.job_description = b,
                                 !.threshold = DefaultThreshold]
    /\ MatcherOnly

NextLimit == ExtractMissingSkills

SpecLimit == InitLimit /\ [][NextLimit]_vars

\* ------------------------------------------------ calls one after another
\* the texts of the terms python and react
HistoryTexts ==
    {t \in Texts : Len(t) <= 2 /\ Range(t) \subseteq {"python", "react"}}

\* the lists of at most one candidate
HistoryLists == {cs \in CandidateLists : Len(cs) <= 1}

\* a call on the engine; before is the vocabulary its vectorizer holds
CallAfter(c, vocabulary) ==
    CallOver(c, [NoCall EXCEPT !.before = vocabulary],
             HistoryTexts, HistoryLists)

\* a new engine and its first call
InitHistory ==
    /\ sklearn_installed = TRUE
    /\ engine = "constructed"
    /\ vectorizer = NoVectorizer
    /\ tfidf_matrix = "None"
    /\ CallAfter(call, <<>>)
    /\ MatcherOnly

\* the caller makes its next call on the same engine
NewCall ==
    /\ engine = "constructed"
    /\ call.outcome # "pending"
    /\ CallAfter(call', vectorizer.vocabulary_)
    /\ UNCHANGED <<sklearn_installed, engine, vectorizer, tfidf_matrix>>
    /\ UNCHANGED matcherRest

NextHistory ==
    \/ NewCall
    \/ CalculateMatchScore
    \/ ExtractMissingSkills
    \/ RankCandidates

SpecHistory == InitHistory /\ [][NextHistory]_vars

\* ------------------------------------------------- the life of an engine
\* a process with or without scikit-learn, and the first call that will be
\* made on the engine once it is constructed
InitLifecycle ==
    /\ sklearn_installed \in BOOLEAN
    /\ engine = "none"
    /\ vectorizer = NoVectorizer
    /\ tfidf_matrix = "None"
    /\ CallAfter(call, <<>>)
    /\ MatcherOnly

\* the engine is constructed, then called again and again
NextLifecycle ==
    \/ Construct
    \/ NewCall
    \/ CalculateMatchScore
    \/ ExtractMissingSkills
    \/ RankCandidates

SpecLifecycle == InitLifecycle /\ [][NextLifecycle]_vars

\* ------------------------------------------------------- concurrent calls
Threads == {1, 2}

ConcurrentTexts ==
    {t \in HistoryTexts : Len(t) <= 1} \cup {<<"react", "python">>}

\* a call about to start, with the default max_score
ThreadCalls ==
    [op : {"calculate_match_score", "extract_missing_skills"},
     resume_text : ConcurrentTexts, job_description : ConcurrentTexts,
     pc : {"fit"}, matrix : {<<>>}, columns : {<<>>}, feature_names : {<<>>},
     outcome : {"pending"}, score : {0},
     missing_skills : {{}}, matched_skills : {{}}]

\* every MatchingEngine is one object: _vectorizer is a class attribute
EngineOf_class_attribute(t) == 1

\* the engine thread t calls: engine 1 when it is shared, else its own
EngineOf(t) == IF shared THEN 1 ELSE t

\* two threads, each about to make a call, on one engine or on two
InitShared ==
    /\ ConcurrentOnly
    /\ shared \in BOOLEAN
    /\ engines = [e \in Threads |-> NoVectorizer]
    /\ threads \in [Threads -> ThreadCalls]

\* thread t ends its call with result r
ThreadEnds(t, r) ==
    threads' = [threads EXCEPT ![t] =
        [k \in DOMAIN threads[t] |->
            IF k = "pc" THEN "done"
            ELSE IF k \in DOMAIN r THEN r[k] ELSE threads[t][k]]]

\* lines 51 and 74, given what fit_transform did: the exception ends the
\* call, or the matrix is kept in the thread's local variable; columns is
\* the vocabulary the matrix was built over
ThreadFitted(t, fit) ==
    /\ engines' = [engines EXCEPT ![EngineOf(t)] = fit.vectorizer]
    /\ IF fit.raised
       THEN ThreadEnds(t, [outcome |-> fit.error])
       ELSE threads' = [threads EXCEPT
                ![t].matrix = fit.matrix,
                ![t].columns = fit.vectorizer.vocabulary_,
                ![t].pc = IF threads[t].op = "extract_missing_skills"
                          THEN "read" ELSE "similarity"]
    /\ UNCHANGED <<shared, concurrentRest>>

\* tfidf_matrix = self.vectorizer.fit_transform(documents) in thread t
ThreadFit(t) ==
    /\ threads[t].pc = "fit"
    /\ ThreadFitted(t, fit_transform(engines[EngineOf(t)],
                          <<threads[t].resume_text, threads[t].job_description>>))

\* lines 77-89 in thread t, given the feature names it reads: indexing
\* them with a feature the array does not have raises IndexError
ThreadReadNames(t, names) ==
    /\ IF \E j \in Nonzero(threads[t].matrix[1]) \cup Nonzero(threads[t].matrix[2]) :
              j > Len(names)
       THEN ThreadEnds(t, [outcome |-> "IndexError", feature_names |-> names])
       ELSE ThreadEnds(t, [feature_names |-> names]
                          @@ SkillsOfWords(WordsAt(names, Nonzero(threads[t].matrix[2])),
                                           WordsAt(names, Nonzero(threads[t].matrix[1])),
                                           engines[EngineOf(t)]))
    /\ UNCHANGED <<shared, engines, concurrentRest>>

\* line 77 onwards: self.vectorizer.get_feature_names_out() is read now
ThreadRead(t) ==
    /\ threads[t].pc = "read"
    /\ ThreadReadNames(t, get_feature_names_out(engines[EngineOf(t)]))

\* lines 54-57 in thread t: the similarity of the rows of its own matrix
ThreadSimilarity(t) ==
    /\ threads[t].pc = "similarity"
    /\ ThreadEnds(t, ScoreOfFit([raised |-> FALSE, matrix |-> threads[t].matrix,
                                 vectorizer |-> engines[EngineOf(t)]], 100))
    /\ UNCHANGED <<shared, engines, concurrentRest>>

NextShared ==
    \E t \in Threads :
        \/ ThreadFit(t)
        \/ ThreadRead(t)
        \/ ThreadSimilarity(t)

SpecShared == InitShared /\ [][NextShared]_vars

\* ================================================ part 2: desktop.py ====
\* model_context_protocol/py-mcp/src/desktop.py.  A filename is a sequence
\* of characters.
MaxNameLen == 3

Chars == {"a", ".", "/", "\\"}

Filenames == UNION {[1..n -> Chars] : n \in 0..MaxNameLen}

\* c in s
Contains(s, c) == \E i \in 1..Len(s) : s[i] = c

\* ".." in s
ContainsDotDot(s) == \E i \in 1..(Len(s) - 1) : s[i] = "." /\ s[i + 1] = "."

\* s.replace("\\", "/")
ReplaceBackslash(s) == [i \in 1..Len(s) |-> IF s[i] = "\\" THEN "/" ELSE s[i]]

\* the components of a POSIX path as pathlib parses it: s is split at "/",
\* and the empty components and the "." components are dropped; part is the
\* component being read
RECURSIVE PathParts(_, _)
PathParts(s, part) ==
    IF s = <<>>
    THEN IF part \in {<<>>, <<".">>} THEN <<>> ELSE <<part>>
    ELSE IF Head(s) = "/"
         THEN (IF part \in {<<>>, <<".">>} THEN <<>> ELSE <<part>>)
                  \o PathParts(Tail(s), <<>>)
         ELSE PathParts(Tail(s), Append(part, Head(s)))

\* Path(s).name: the last component, or the empty string when there is none
PathName(s) ==
    LET parts == PathParts(s, <<>>)
    IN  IF parts = <<>> THEN <<>> ELSE parts[Len(parts)]

\* lines 84-89 without the test for ".." in filename
CheckDirectoryParts_basename_only(filename, basename) ==
    IF basename # filename
    THEN [raised |-> TRUE,
          message |-> "Filename cannot contain directory paths", value |-> <<>>]
    ELSE [raised |-> FALSE, message |-> "", value |-> basename]

\* lines 84-89 of normalize_filename
CheckDirectoryParts(filename, basename) ==
    IF ContainsDotDot(filename) \/ basename # filename
    THEN [raised |-> TRUE,
          message |-> "Filename cannot contain directory paths", value |-> <<>>]
    ELSE [raised |-> FALSE, message |-> "", value |-> basename]

\* lines 73-89 of normalize_filename
CheckSeparators(filename, normalized) ==
    IF Contains(normalized, "/") \/ Contains(filename, "\\")
    THEN [raised |-> TRUE,
          message |-> "Filename cannot contain path separators", value |-> <<>>]
    ELSE CheckDirectoryParts(filename, PathName(normalized))

\* normalize_filename(filename): ValueError with its message, or the value
normalize_filename(filename) ==
    IF filename = <<>>
    THEN [raised |-> TRUE, message |-> "Filename cannot be empty", value |-> <<>>]
    ELSE CheckSeparators(filename, ReplaceBackslash(filename))

\* what DESKTOP_PATH / filename can be: nothing, a regular file or a
\* directory, reached directly or through a symbolic link, with a resolved
\* path inside or outside the desktop directory
Targets == [kind : {"absent", "file", "dir"}, resolved : {"inside", "outside"}]

DesktopOps == {"normalize_filename", "get_file_content", "desktop_file_resource"}

RequestPending(op) == request.op = op /\ request.outcome = "pending"

\* one call on the desktop server, with its filename and its file system
InitDesktop ==
    /\ DesktopOnly
    /\ \E op \in DesktopOps, f \in Filenames :
           request = [op |-> op, filename |-> f, outcome |-> "pending",
                      isError |-> FALSE, text |-> "", value |-> <<>>]
    /\ target \in Targets
    /\ opened = {}

\* the call ends: an error result or the content, and the files it opened
Responds(isError, text, reads) ==
    /\ request' = [request EXCEPT !.outcome = "return", !.isError = isError,
                                  !.text = text]
    /\ opened' = opened \cup reads
    /\ UNCHANGED <<target, desktopRest>>

\* open(file_path) and f.read() of the file named name
ReadOf(name) == {[name |-> name, resolved |-> target.resolved]}

\* normalize_filename called on its own
NormalizeFilename ==
    /\ RequestPending("normalize_filename")
    /\ request' = [request EXCEPT
           !.outcome = IF normalize_filename(request.filename).raised
                       THEN "ValueError" ELSE "return",
           !.text = normalize_filename(request.filename).message,
           !.value = normalize_filename(request.filename).value]
    /\ UNCHANGED <<target, opened, desktopRest>>

\* lines 136-166 of get_file_content without the test of lines 139-144
FileContentOf_unresolved(n) ==
    IF n.raised THEN Responds(TRUE, n.message, {})
    ELSE IF target.kind = "absent" THEN Responds(TRUE, "File not found", {})
    ELSE IF target.kind # "file" THEN Responds(TRUE, "is not a file", {})
    ELSE Responds(FALSE, "content", ReadOf(n.value))

\* lines 135-172 of get_file_content, given the result n of normalize_filename
FileContentOf(n) ==
    IF n.raised THEN Responds(TRUE, n.message, {})
    ELSE IF target.resolved # "inside"
         THEN Responds(TRUE, "Access denied - file outside desktop directory", {})
    ELSE IF target.kind = "absent" THEN Responds(TRUE, "File not found", {})
    ELSE IF target.kind # "file" THEN Responds(TRUE, "is not a file", {})
    ELSE Responds(FALSE, "content", ReadOf(n.value))

GetFileContent ==
    /\ RequestPending("get_file_content")
    /\ FileContentOf(normalize_filename(request.filename))

\* lines 275-293 of desktop_file_resource, given the result n of
\* normalize_filename; isError stands for a JSON object with an "error" key
FileResourceOf(n) ==
    IF n.raised THEN Responds(TRUE, n.message, {})
    ELSE IF target.resolved # "inside"
         THEN Responds(TRUE, "Access denied - file outside desktop directory", {})
    ELSE IF target.kind # "file" THEN Responds(TRUE, "File not found", {})
    ELSE Responds(FALSE, "content", ReadOf(n.value))

DesktopFileResource ==
    /\ RequestPending("desktop_file_resource")
    /\ FileResourceOf(normalize_filename(request.filename))

NextDesktop ==
    \/ NormalizeFilename
    \/ GetFileContent
    \/ DesktopFileResource

SpecDesktop == InitDesktop /\ [][NextDesktop]_vars

\* ================================================= part 3: memory.py ====
\* model_context_protocol/py-mcp/src/memory.py.  A row of the memories
\* table is its id and its importance.
MAX_DEPTH == 5

MaxMemories == 7

Importances == {1, 2, 3}

\* the tables of n rows with the ids SERIAL gives them
TablesOf(n) ==
    {{[id |-> i, importance |-> f[i]] : i \in 1..n} : f \in [1..n -> Importances]}

\* ORDER BY importance ASC OFFSET $1: the rows kept are the least
\* important ones
KeptByOffset_ascending(table, offset) ==
    {K \in SUBSET table :
        /\ Cardinality(K) = offset
        /\ \A k \in K : \A r \in table \ K : k.importance <= r.importance}

\* ORDER BY importance DESC OFFSET $1 skips the first offset rows of the
\* order; rows of equal importance come in an order the database chooses,
\* so each set of offset rows that no other row exceeds can be skipped
KeptByOffset(table, offset) ==
    {K \in SUBSET table :
        /\ Cardinality(K) = offset
        /\ \A k \in K : \A r \in table \ K : k.importance >= r.importance}

\* a table and a call of prune_memories about to start
InitMemory ==
    /\ MemoryOnly
    /\ \E n \in 0..MaxMemories : memories \in TablesOf(n)
    /\ prune = [pc |-> "count", count |-> 0, rows |-> {}, remaining |-> {}]
    /\ remember = NoRemember

\* lines 355-356: SELECT COUNT(*) and the test against MAX_DEPTH
PruneCount ==
    /\ prune.pc = "count"
    /\ prune' = [prune EXCEPT
           !.count = Cardinality(memories),
           !.pc = IF Cardinality(memories) > MAX_DEPTH THEN "select" ELSE "done"]
    /\ UNCHANGED <<memories, remember, memoryRest>>

\* lines 358-366: the rows after the MAX_DEPTH most important ones
PruneSelect ==
    /\ prune.pc = "select"
    /\ \E K \in KeptByOffset(memories, MAX_DEPTH) :
           prune' = [prune EXCEPT !.rows = memories \ K,
                                  !.remaining = memories \ K,
                                  !.pc = "delete"]
    /\ UNCHANGED <<memories, remember, memoryRest>>

\* lines 367-368: one pass of the for loop, over the fetched rows in
\* their order of decreasing importance
PruneDelete ==
    /\ prune.pc = "delete"
    /\ prune.remaining # {}
    /\ \E row \in prune.remaining :
           /\ \A r \in prune.remaining : row.importance >= r.importance
           /\ memories' = {m \in memories : m.id # row.id}
           /\ prune' = [prune EXCEPT !.remaining = prune.remaining \ {row}]
    /\ UNCHANGED <<remember, memoryRest>>

\* line 369: the loop has ended
PruneReturn ==
    /\ prune.pc = "delete"
    /\ prune.remaining = {}
    /\ prune' = [prune EXCEPT !.pc = "done"]
    /\ UNCHANGED <<memories, remember, memoryRest>>

NextMemory ==
    \/ PruneCount
    \/ PruneSelect
    \/ PruneDelete
    \/ PruneReturn

SpecMemory == InitMemory /\ [][NextMemory]_vars

\* The remember tool.  In its model a row of the table is its id, its
\* importance in ten-thousandths, rounded down, and the contents its text
\* combines; the access count, the summary and the timestamp are left out.
ImportanceOne == 10000

\* the factors of update_importance, in hundredths
DECAY_FACTOR == 99
REINFORCEMENT_FACTOR == 110

\* remember(contents) with two contents, one add_memory task for each
Contents == {1, 2}

\* a task of asyncio.gather that has not run yet: new_memory is its id
\* (0 for None), its importance and its content
NewTask(content) ==
    [pc |-> "start", id |-> 0, importance |-> ImportanceOne,
     content |-> {content}, similar_memories |-> {}, other |-> 0,
     rows |-> {}, result |-> "pending"]

\* cosine_similarity(a, b) > SIMILARITY_THRESHOLD for the embeddings of two
\* texts: one text's embedding is similar to itself, and an average of
\* the two contents' embeddings lies between them
Similar(a, b) == remember.similar \/ a \cap b # {}

\* UPDATE memories SET ... WHERE id = $n: no row changes when the id is
\* not in the table
UpdateRow(table, id, importance, content) ==
    {IF m.id = id
     THEN [id |-> id, importance |-> importance, content |-> content]
     ELSE m : m \in table}

\* DELETE FROM memories WHERE id = $1
DeleteRow(table, id) == {m \in table : m.id # id}

\* the memories of similar_memories that the loop of add_memory merges
\* into new_memory
ToMerge(task) ==
    {m \in task.similar_memories :
        m.id # task.id /\ Similar(task.content, m.content)}

\* an empty table and a call of remember with two contents, whose
\* embeddings are similar or not
InitRemember ==
    /\ MemoryOnly
    /\ memories = {}
    /\ prune = [pc |-> "none", count |-> 0, rows |-> {}, remaining |-> {}]
    /\ \E similar \in BOOLEAN :
           remember = [similar |-> similar, serial |-> 0,
                       tasks |-> [c \in Contents |-> NewTask(c)],
                       outcome |-> "pending"]

\* lines 260-261: from_content and the INSERT of save, which returns the
\* new row's id
AddMemoryInsert(t) ==
    /\ remember.tasks[t].pc = "start"
    /\ memories' = memories \cup
           {[id |-> remember.serial + 1,
             importance |-> remember.tasks[t].importance,
             content |-> remember.tasks[t].content]}
    /\ remember' = [remember EXCEPT
           !.serial = @ + 1,
           !.tasks[t].id = remember.serial + 1,
           !.tasks[t].pc = "find"]
    /\ UNCHANGED <<prune, memoryRest>>

\* line 264, find_similar_memories: the five nearest rows, which are all
\* the rows of a table that two tasks fill
AddMemoryFind(t) ==
    /\ remember.tasks[t].pc = "find"
    /\ remember' = [remember EXCEPT
           !.tasks[t].similar_memories = memories,
           !.tasks[t].pc = "loop"]
    /\ UNCHANGED <<memories, prune, memoryRest>>

\* lines 265-273 and merge_with up to its save (lines 191-219): the next
\* similar memory is combined into new_memory, and new_memory's row is
\* updated
AddMemoryMerge(t) ==
    /\ remember.tasks[t].pc = "loop"
    /\ \E memory \in ToMerge(remember.tasks[t]) :
           /\ memories' = UpdateRow(memories, remember.tasks[t].id,
                  remember.tasks[t].importance + memory.importance,
                  remember.tasks[t].content \cup memory.content)
           /\ remember' = [remember EXCEPT
                  !.tasks[t].importance = @ + memory.importance,
                  !.tasks[t].content = @ \cup memory.content,
                  !.tasks[t].similar_memories = @ \ {memory},
                  !.tasks[t].other = memory.id,
                  !.tasks[t].pc = "delete"]
    /\ UNCHANGED <<prune, memoryRest>>

\* lines 221-223 of merge_with: delete_memory(other.id)
AddMemoryDelete(t) ==
    /\ remember.tasks[t].pc = "delete"
    /\ memories' = DeleteRow(memories, remember.tasks[t].other)
    /\ remember' = [remember EXCEPT !.tasks[t].pc = "loop"]
    /\ UNCHANGED <<prune, memoryRest>>

\* the loop of add_memory has ended; lines 321-324 of update_importance:
\* SELECT ... FROM memories
UpdateImportanceSelect(t) ==
    /\ remember.tasks[t].pc = "loop"
    /\ ToMerge(remember.tasks[t]) = {}
    /\ remember' = [remember EXCEPT
           !.tasks[t].similar_memories = {},
           !.tasks[t].rows = memories,
           !.tasks[t].pc = "update"]
    /\ UNCHANGED <<memories, prune, memoryRest>>

\* lines 328-334: the importance update_importance gives a fetched row
NewImportance(task, row) ==
    IF Similar(task.content, row.content)
    THEN (row.importance * REINFORCEMENT_FACTOR) \div 100
    ELSE (row.importance * DECAY_FACTOR) \div 100

\* UPDATE memories SET importance = $1, access_count = $2 WHERE id = $3
UpdateImportanceOf(table, id, importance) ==
    {IF m.id = id THEN [m EXCEPT !.importance = importance] ELSE m :
        m \in table}

\* lines 326-346: one pass of the loop of update_importance, over the
\* fetched rows in the order the database returned them
UpdateImportanceRow(t) ==
    /\ remember.tasks[t].pc = "update"
    /\ \E row \in remember.tasks[t].rows :
           /\ memories' = UpdateImportanceOf(memories, row.id,
                  NewImportance(remember.tasks[t], row))
           /\ remember' = [remember EXCEPT !.tasks[t].rows = @ \ {row}]
    /\ UNCHANGED <<prune, memoryRest>>

\* lines 281-285: prune_memories counts no more than MAX_DEPTH rows, as
\* two tasks on an empty table leave at most two, and add_memory returns
AddMemoryReturn(t) ==
    /\ remember.tasks[t].pc = "update"
    /\ remember.tasks[t].rows = {}
    /\ Cardinality(memories) <= MAX_DEPTH
    /\ remember' = [remember EXCEPT !.tasks[t].pc = "done",
                                     !.tasks[t].result = "Remembered"]
    /\ UNCHANGED <<memories, prune, memoryRest>>

\* lines 431-434 of remember: asyncio.gather has every result
RememberReturn ==
    /\ remember.outcome = "pending"
    /\ \A t \in Contents : remember.tasks[t].pc = "done"
    /\ remember' = [remember EXCEPT !.outcome = "return"]
    /\ UNCHANGED <<memories, prune, memoryRest>>

NextRemember ==
    \/ \E t \in Contents :
           \/ AddMemoryInsert(t)
           \/ AddMemoryFind(t)
           \/ AddMemoryMerge(t)
           \/ AddMemoryDelete(t)
           \/ UpdateImportanceSelect(t)
           \/ UpdateImportanceRow(t)
           \/ AddMemoryReturn(t)
    \/ RememberReturn

SpecRemember == InitRemember /\ [][NextRemember]_vars

\* ================================================ part 4: text_me.py ====
\* model_context_protocol/py-mcp/src/text_me.py, SurgeApiClient.send_sms.
SmsMessages ==
    [phone_number : {"+11234567890", "+15550100"}, message_body : {"hi", "bye"}]

\* what self.client.post does: a response with its status and body, an
\* httpx.RequestError, or another exception.  The body is a JSON object
\* with a string under "message_id", a JSON object without that key, a JSON
\* object with null under it, JSON that is no object, or no JSON at all.
HttpStatuses == {200, 400, 500}
HttpBodies == {"id_string", "no_id", "id_null", "not_object", "not_json"}

HttpOutcomes ==
    [kind : {"response"}, status : HttpStatuses, body : HttpBodies]
    \cup {[NoHttp EXCEPT !.kind = "RequestError"],
          [NoHttp EXCEPT !.kind = "Exception"]}

\* message_id = f"sms_{datetime.utcnow().timestamp()}"
OwnMessageId == "sms_timestamp"

\* _log_failure: the lines appended to the failure log; open() or write()
\* failing is caught and only reported
LogFailure(message_id, message, error_reason, error_code) ==
    IF log_writable
    THEN <<[message_id |-> message_id, recipient |-> message.phone_number,
            message_body |-> message.message_body,
            error_reason |-> error_reason, error_code |-> error_code]>>
    ELSE <<>>

\* an except branch without its call of _log_failure
Failed_unlogged(message, error_msg, error_code) ==
    [success |-> FALSE, message_id |-> OwnMessageId, error |-> error_msg,
     logged |-> <<>>]

\* lines 233-282: the failure is logged and a response with success=False
\* and the error message is returned
Failed(message, error_msg, error_code) ==
    [success |-> FALSE, message_id |-> OwnMessageId, error |-> error_msg,
     logged |-> LogFailure(OwnMessageId, message, error_msg, error_code)]

\* lines 224-232: response.json() raises on a body that is no JSON,
\* api_response.get raises on JSON that is no object, and SmsResponse
\* raises on a message_id that is no string; each is caught at line 267
Sent(message, body) ==
    IF body \in {"not_json", "not_object", "id_null"}
    THEN Failed(message, "Unexpected error", "None")
    ELSE [success |-> TRUE,
          message_id |-> IF body = "id_string" THEN "surge_msg" ELSE OwnMessageId,
          error |-> "None", logged |-> <<>>]

\* send_sms(message) when the request does what http says
send_sms(message, http) ==
    IF http.kind = "RequestError" THEN Failed(message, "Network error", "None")
    ELSE IF http.kind = "Exception" THEN Failed(message, "Unexpected error", "None")
    ELSE IF http.status = 200 THEN Sent(message, http.body)
    ELSE Failed(message, "Surge API error", http.status)

\* a client, a failure log that is empty or holds an earlier failure, and
\* one call of send_sms
InitSms ==
    /\ SmsOnly
    /\ \E m \in SmsMessages, h \in HttpOutcomes :
           sms = [NoSms EXCEPT !.message = m, !.http = h]
    /\ \E m \in SmsMessages :
           failure_log \in
               {<<>>,
                <<[message_id |-> "sms_earlier", recipient |-> m.phone_number,
                   message_body |-> m.message_body,
                   error_reason |-> "Network error", error_code |-> "None"]>>}
    /\ log_writable \in BOOLEAN

\* the call returns r
SmsReturns(r) ==
    /\ sms' = [sms EXCEPT !.outcome = "return", !.success = r.success,
                          !.message_id = r.message_id, !.error = r.error]
    /\ failure_log' = failure_log \o r.logged
    /\ UNCHANGED <<log_writable, smsRest>>

SendSms ==
    /\ sms.outcome = "pending"
    /\ sms.http # NoHttp
    /\ SmsReturns(send_sms(sms.message, sms.http))

NextSms == SendSms

SpecSms == InitSms /\ [][NextSms]_vars

\* ================================ part 5: mcp_simple_pagination.py ====
\* model_context_protocol/py-mcp/src/servers/simple_pagination/
\* mcp_simple_pagination.py.  A string is the sequence of its characters.
MaxItems == 6
MaxPageSize == 3
MaxCursorLen == 3

\* the characters a client's cursor is written with: digits, the minus
\* sign, a space and a letter
CursorChars == {"1", "2", "-", " ", "a"}

CursorTexts == UNION {[1..n -> CursorChars] : n \in 0..MaxCursorLen}

\* the cursors a client can send: none, or a string
Cursors == {NoCursor} \cup {Cursor(t) : t \in CursorTexts}

DigitChars == <<"0", "1", "2", "3", "4", "5", "6", "7", "8", "9">>

IsDigit(c) == \E d \in 1..10 : DigitChars[d] = c

DigitOf(c) == (CHOOSE d \in 1..10 : DigitChars[d] = c) - 1

\* str(n) of an integer
RECURSIVE Str(_)
Str(n) ==
    IF n < 0 THEN <<"-">> \o Str(-n)
    ELSE IF n < 10 THEN <<DigitChars[n + 1]>>
    ELSE Str(n \div 10) \o <<DigitChars[(n % 10) + 1]>>

\* the number a sequence of digits writes
RECURSIVE DigitsValue(_)
DigitsValue(ds) ==
    IF ds = <<>> THEN 0
    ELSE 10 * DigitsValue(SubSeq(ds, 1, Len(ds) - 1)) + DigitOf(ds[Len(ds)])

\* str.strip(): the text without the spaces at its two ends
RECURSIVE Strip(_)
Strip(t) ==
    IF t = <<>> THEN t
    ELSE IF Head(t) = " " THEN Strip(Tail(t))
    ELSE IF t[Len(t)] = " " THEN Strip(SubSeq(t, 1, Len(t) - 1))
    ELSE t

\* int(text) of a string, given the text without its sign: digits only,
\* at least one, else ValueError
IntOfDigits(sign, ds) ==
    IF ds # <<>> /\ \A i \in 1..Len(ds) : IsDigit(ds[i])
    THEN [raised |-> FALSE, value |-> sign * DigitsValue(ds)]
    ELSE [raised |-> TRUE, value |-> 0]

\* int(text) of a string: spaces around the number are dropped, and one
\* sign may precede the digits
IntOfStripped(t) ==
    IF t # <<>> /\ Head(t) = "-" THEN IntOfDigits(-1, Tail(t))
    ELSE IF t # <<>> /\ Head(t) = "+" THEN IntOfDigits(1, Tail(t))
    ELSE IntOfDigits(1, t)

int(text) == IntOfStripped(Strip(text))

\* lines 73-80 with "except TypeError": the ValueError of int() leaves
\* paginate_list
StartIndex_value_error_uncaught(cursor) ==
    IF cursor.none
    THEN [outcome |-> "return", start_idx |-> 0]
    ELSE IF int(cursor.text).raised
    THEN [outcome |-> "ValueError", start_idx |-> 0]
    ELSE [outcome |-> "return", start_idx |-> int(cursor.text).value]

\* lines 73-80 of paginate_list: 0 without a cursor and for a cursor that
\* int() rejects, else the integer the cursor writes
StartIndex(cursor) ==
    IF cursor.none
    THEN [outcome |-> "return", start_idx |-> 0]
    ELSE IF int(cursor.text).raised
    THEN [outcome |-> "return", start_idx |-> 0]
    ELSE [outcome |-> "return", start_idx |-> int(cursor.text).value]

Min(a, b) == IF a < b THEN a ELSE b
Max(a, b) == IF a > b THEN a ELSE b

\* where an index of a slice falls in a list of n items: a negative index
\* counts from the end, and every index is brought into 0..n
SliceIndex(i, n) == IF i < 0 THEN Max(i + n, 0) ELSE Min(i, n)

\* items[start:stop]
Slice(items, start, stop) ==
    SubSeq(items, SliceIndex(start, Len(items)) + 1,
           SliceIndex(stop, Len(items)))

\* lines 84-86 with next_cursor = str(start_idx + page_size + 1)
NextCursorOf_skips_one(start_idx, page_size, n) ==
    IF start_idx + page_size < n
    THEN Cursor(Str(start_idx + page_size + 1))
    ELSE NoCursor

\* lines 84-86 of paginate_list
NextCursorOf(start_idx, page_size, n) ==
    IF start_idx + page_size < n
    THEN Cursor(Str(start_idx + page_size))
    ELSE NoCursor

\* lines 82-89 of paginate_list, given what lines 73-80 did
PageFrom(items, page_size, s) ==
    IF s.outcome # "return"
    THEN [outcome |-> s.outcome, page_items |-> <<>>, next_cursor |-> NoCursor]
    ELSE [outcome |-> "return",
          page_items |-> Slice(items, s.start_idx, s.start_idx + page_size),
          next_cursor |-> NextCursorOf(s.start_idx, page_size, Len(items))]

paginate_list(items, page_size, cursor) ==
    PageFrom(items, page_size, StartIndex(cursor))

\* the n items of a collection, tool_1 ... tool_n
ItemsOf(n) == [i \in 1..n |-> i]

\* SAMPLE_TOOLS with list_tools, SAMPLE_RESOURCES with list_resources and
\* SAMPLE_PROMPTS with list_prompts
ServerListings ==
    {[items |-> ItemsOf(25), page_size |-> 5],
     [items |-> ItemsOf(30), page_size |-> 10],
     [items |-> ItemsOf(20), page_size |-> 7]}

\* the three list tools, and list tools over shorter collections
Listings ==
    ServerListings
    \cup {[items |-> ItemsOf(n), page_size |-> p] :
             n \in 0..MaxItems, p \in 1..MaxPageSize}

\* a client about to make its first call of a list tool, with a cursor
InitPagination ==
    /\ \E l \in Listings, c \in Cursors :
           listing = [NoListing EXCEPT !.items = l.items,
                                       !.page_size = l.page_size,
                                       !.first = c, !.cursor = c,
                                       !.pc = "call"]
    /\ PaginationOnly

\* the call returns r, or raises
ListReturns(r) ==
    /\ listing' = [listing EXCEPT
           !.pc = "returned",
           !.outcome = r.outcome,
           !.page_items = r.page_items,
           !.next_cursor = r.next_cursor,
           !.received = IF r.outcome = "return"
                        THEN @ \o r.page_items ELSE @,
           !.calls = @ + 1]
    /\ UNCHANGED paginationRest

\* list_tools(cursor), list_resources(cursor) or list_prompts(cursor):
\* one call of paginate_list on the tool's collection
ListTool ==
    /\ listing.pc = "call"
    /\ ListReturns(paginate_list(listing.items, listing.page_size,
                                 listing.cursor))

\* the client asks for the next page with the next_cursor it was given
FollowCursor ==
    /\ listing.pc = "returned"
    /\ listing.outcome = "return"
    /\ ~listing.next_cursor.none
    /\ listing' = [listing EXCEPT !.pc = "call",
                                   !.outcome = "pending",
                                   !.cursor = listing.next_cursor]
    /\ UNCHANGED paginationRest

NextPagination ==
    \/ ListTool
    \/ FollowCursor

SpecPagination == InitPagination /\ [][NextPagination]_vars

\* ---------------------------------------------------------------- claims
Ran(op) == call.op = op /\ call.outcome # "pending"
Returned(op) == call.op = op /\ call.outcome = "return"

\* a text that is empty or holds only stop words and one-letter words
Degenerate(text) == Analyze(text) = <<>>

\* C1: whenever calculate_match_score returns for a positive max_score,
\* the score s satisfies 0 <= s <= max_score (a score is in units of
\* 1/SCALE, so max_score is SCALE * call.max_score units).
C1_ScoreInRange ==
    (Returned("calculate_match_score") /\ call.max_score > 0)
        => (0 <= call.score /\ call.score <= SCALE * call.max_score)

\* C2: calculate_match_score never raises on degenerate input: when either
\* text is empty or only stop words, it returns 0.
C2_DegenerateScoreIsZero ==
    (/\ Ran("calculate_match_score")
     /\ Degenerate(call.resume_text) \/ Degenerate(call.job_description))
        => (call.outcome = "return" /\ call.score = 0)

\* C3: extract_missing_skills never raises on degenerate input: when either
\* text is empty or only stop words, it returns an empty missing set and an
\* empty matched set.
C3_DegenerateSkillsAreEmpty ==
    (/\ Ran("extract_missing_skills")
     /\ Degenerate(call.resume_text) \/ Degenerate(call.job_description))
        => (/\ call.outcome = "return"
            /\ call.missing_skills = {}
            /\ call.matched_skills = {})

\* C4: whenever extract_missing_skills returns, missing and matched are
\* disjoint, their union is exactly the set of terms the job description
\* contributes to the vocabulary, missing is those terms without the
\* resume's and matched is those terms that are also the resume's.
C4_SkillsPartitionJobWords ==
    Returned("extract_missing_skills") =>
        LET job_words == Range(Analyze(call.job_description))
            resume_words == Range(Analyze(call.resume_text))
        IN  /\ call.missing_skills \cap call.matched_skills = {}
            /\ call.missing_skills \cup call.matched_skills = job_words
            /\ call.missing_skills = job_words \ resume_words
            /\ call.matched_skills = job_words \cap resume_words

\* a job description with a term the resume has and a term it lacks, and
\* a resume that also holds a word the analysis drops
C4_Witness ==
    /\ Returned("extract_missing_skills")
    /\ call.missing_skills # {}
    /\ call.matched_skills # {}
    /\ Len(Analyze(call.resume_text)) < Len(call.resume_text)

\* ------------------------------------------------- claims on the ranking
AddedKeys == {"match_score", "missing_skills", "matched_skills"}

\* record r holds the keys of candidate c and the three added keys, and
\* every other key of c with c's value
Derived(r, c) ==
    /\ DOMAIN r = DOMAIN c \cup AddedKeys
    /\ \A k \in DOMAIN c \ AddedKeys : r[k] = c[k]

Orderings(n) ==
    {p \in [1..n -> 1..n] : \A i, j \in 1..n : p[i] = p[j] => i = j}

\* C5: the list returned by rank_candidates is sorted non-increasing by
\* match_score.
C5_RankedNonIncreasing ==
    Returned("rank_candidates") =>
        \A i \in 1..(Len(call.ranked) - 1) :
            call.ranked[i].match_score >= call.ranked[i + 1].match_score

\* the second candidate of the input scores higher and is returned first
C5_Witness ==
    /\ Returned("rank_candidates")
    /\ Len(call.ranked) = 2
    /\ call.ranked[1].match_score > call.ranked[2].match_score
    /\ Derived(call.ranked[1], call.candidates[2])
    /\ ~Derived(call.ranked[1], call.candidates[1])

\* C6: the list returned by rank_candidates has one record per input
\* candidate: the lengths are equal and the records are the candidates'
\* in some order, none dropped and none duplicated.
C6_OneRecordPerCandidate ==
    Returned("rank_candidates") =>
        /\ Len(call.ranked) = Len(call.candidates)
        /\ \E p \in Orderings(Len(call.candidates)) :
               \A i \in 1..Len(call.ranked) :
                   Derived(call.ranked[i], call.candidates[p[i]])

\* a ranking of two or more candidates, reordered by the sort
C6_Witness ==
    /\ Returned("rank_candidates")
    /\ Len(call.candidates) >= 2
    /\ Len(call.ranked) = Len(call.candidates)
    /\ ~Derived(call.ranked[1], call.candidates[1])

\* C7: every returned record holds the key/value pairs of its candidate
\* and the keys match_score, missing_skills and matched_skills with the
\* values computed for that candidate, also when the candidate came with a
\* value of its own under one of the three keys.
C7_RecordKeepsFieldsAndAddsThree ==
    Returned("rank_candidates") =>
        \A i \in 1..Len(call.ranked) :
            \E j \in 1..Len(call.candidates) :
                LET r == call.ranked[i]
                    c == call.candidates[j]
                    s == calculate_match_score(NoVectorizer, ResumeOf(c),
                             call.job_description, call.max_score)
                    e == extract_missing_skills(NoVectorizer, ResumeOf(c),
                             call.job_description, DefaultThreshold)
                IN  /\ Derived(r, c)
                    /\ r.match_score = s.score
                    /\ r.missing_skills = e.missing_skills
                    /\ r.matched_skills = e.matched_skills

\* a candidate that came with match_score and matched_skills of its own
\* is returned with other, computed values and its remaining fields
C7_Witness ==
    /\ Returned("rank_candidates")
    /\ \E i \in 1..Len(call.ranked) : \E j \in 1..Len(call.candidates) :
           /\ "match_score" \in DOMAIN call.candidates[j]
           /\ "matched_skills" \in DOMAIN call.candidates[j]
           /\ Derived(call.ranked[i], call.candidates[j])
           /\ call.ranked[i].match_score # call.candidates[j].match_score
           /\ call.ranked[i].matched_skills # call.candidates[j].matched_skills
           /\ call.ranked[i].email = call.candidates[j].email

\* C8: rank_candidates does not raise for a candidate without a resume_text
\* key: the candidate is scored as the empty text and is in the output.
C8_MissingResumeTextIsRanked ==
    (/\ Ran("rank_candidates")
     /\ \E j \in 1..Len(call.candidates) :
            "resume_text" \notin DOMAIN call.candidates[j])
        => /\ call.outcome = "return"
           /\ \A j \in 1..Len(call.candidates) :
                  "resume_text" \notin DOMAIN call.candidates[j] =>
                      \E i \in 1..Len(call.ranked) :
                          /\ Derived(call.ranked[i], call.candidates[j])
                          /\ call.ranked[i].match_score = 0
                          /\ call.ranked[i].matched_skills = {}

\* C9: rank_candidates sorts stably: the returned records are the
\* candidates' in an order that keeps candidates of equal match_score in
\* their input order.
C9_StableRanking ==
    Returned("rank_candidates") =>
        \E p \in Orderings(Len(call.candidates)) :
            /\ \A i \in 1..Len(call.ranked) :
                   Derived(call.ranked[i], call.candidates[p[i]])
            /\ \A i, j \in 1..Len(call.ranked) :
                   (i < j /\ call.ranked[i].match_score
                                 = call.ranked[j].match_score)
                       => p[i] < p[j]

\* two different candidates with the same non-zero score
C9_Witness ==
    /\ Returned("rank_candidates")
    /\ Len(call.ranked) >= 2
    /\ call.ranked[1].match_score = call.ranked[2].match_score
    /\ call.ranked[1].match_score # 0
    /\ call.ranked[1].email # call.ranked[2].email

\* C10: calculate_match_score(a, b, max_score) has the outcome and the
\* score of calculate_match_score(b, a, max_score).
C10_ScoreSymmetric ==
    Ran("calculate_match_score") =>
        LET r == calculate_match_score(NoVectorizer, call.job_description,
                                       call.resume_text, call.max_score)
        IN  /\ r.outcome = call.outcome
            /\ r.score = call.score

\* two texts of different terms with a score that is neither end of the range
C10_Witness ==
    /\ Returned("calculate_match_score")
    /\ Range(Analyze(call.resume_text)) # Range(Analyze(call.job_description))
    /\ call.max_score > 1
    /\ 0 < call.score
    /\ call.score < SCALE * call.max_score
    /\ Len(call.resume_text) # Len(call.job_description)

\* ------------------------------------------------------- self-similarity
Abs(n) == IF n < 0 THEN -n ELSE n

\* the calculate_match_score call compared a text that has a term with itself
SelfCall ==
    /\ Ran("calculate_match_score")
    /\ call.resume_text = call.job_description
    /\ ~Degenerate(call.resume_text)

NeedsLibrary ==
    call.op = "rank_candidates" => call.candidates # <<>>

\* the messages that name the missing dependency
NamesSklearn ==
    {"scikit-learn is required for matching", "No module named 'sklearn'"}

\* C12: constructing a MatchingEngine succeeds with or without the library
\* and leaves _vectorizer None; the first call that needs the library loads
\* it, and without the library that call raises an import error whose
\* message names scikit-learn, and returns no score.
C12_LazyLoadFailsLoudly ==
    /\ engine = "none" => ENABLED Construct
    /\ (engine = "constructed" /\ call.outcome = "pending")
           => ~vectorizer.loaded
    /\ (call.outcome # "pending" /\ NeedsLibrary /\ sklearn_installed)
           => vectorizer.loaded
    /\ (call.outcome # "pending" /\ NeedsLibrary /\ ~sklearn_installed)
           => /\ call.outcome \in {"ImportError", "ModuleNotFoundError"}
              /\ call.message \in NamesSklearn
              /\ call.score = 0 /\ call.ranked = <<>>
              /\ ~vectorizer.loaded

\* without the library the engine was constructed and its first call,
\* extract_missing_skills, raised at the import in the vectorizer property
C12_Witness ==
    /\ ~sklearn_installed
    /\ engine = "constructed"
    /\ Ran("extract_missing_skills")
    /\ call.outcome = "ModuleNotFoundError"

\* ------------------------------------------------------------ desktop.py
NormalizeRan == request.op = "normalize_filename" /\ request.outcome # "pending"

HasSeparatorOrDotDot(f) ==
    Contains(f, "/") \/ Contains(f, "\\") \/ ContainsDotDot(f)

\* C13 as stated: normalize_filename raises ValueError for the empty string
\* and for every filename that contains "/", "\" or "..", and returns every
\* other filename.
C13_RejectsOnlySeparatorsAndDotDot ==
    NormalizeRan =>
        /\ request.outcome = "ValueError"
               <=> (request.filename = <<>>
                    \/ HasSeparatorOrDotDot(request.filename))
        /\ request.outcome # "ValueError"
               => (request.outcome = "return"
                   /\ request.value = request.filename)

\* C13 as amended: normalize_filename raises ValueError for the empty
\* string, for every filename that contains "/", "\" or "..", and for the
\* filename that is not its own last path component, which is "."; for
\* every other filename it returns the filename unchanged.
C13_RejectsSeparatorsDotDotAndDot ==
    NormalizeRan =>
        /\ request.outcome = "ValueError"
               <=> (\/ request.filename \in {<<>>, <<".">>}
                    \/ HasSeparatorOrDotDot(request.filename))
        /\ request.outcome = "return"
               => request.value = request.filename

\* a filename with a dot that is neither "." nor holds ".." is returned
C13_Witness ==
    /\ NormalizeRan
    /\ request.outcome = "return"
    /\ Contains(request.filename, ".")
    /\ Len(request.filename) >= 2

\* a call of get_file_content or desktop_file_resource has returned
FileCallRan ==
    /\ request.op \in {"get_file_content", "desktop_file_resource"}
    /\ request.outcome = "return"

\* C14: get_file_content and desktop_file_resource answer every filename
\* that contains a path separator or ".." with an error result and open no
\* file for it, and every file they open has its resolved path inside the
\* desktop directory.
C14_NoReadOutsideDesktop ==
    /\ (FileCallRan /\ HasSeparatorOrDotDot(request.filename))
           => (request.isError /\ opened = {})
    /\ \A o \in opened : o.resolved = "inside"

\* a filename with "/" and ".." that names an existing file outside the
\* desktop directory is answered with an error
C14_Witness ==
    /\ FileCallRan
    /\ Contains(request.filename, "/")
    /\ ContainsDotDot(request.filename)
    /\ target = [kind |-> "file", resolved |-> "outside"]
    /\ request.isError
    /\ opened = {}

\* ------------------------------------------------------------- memory.py
\* the rows prune_memories has deleted
Deleted == prune.rows \ prune.remaining

\* C15: when prune_memories has completed on a table that held more than
\* MAX_DEPTH rows, at most MAX_DEPTH rows remain and no deleted row is more
\* important than a remaining row; on a table of MAX_DEPTH rows or fewer it
\* has deleted nothing.
C15_PruneKeepsMostImportant ==
    prune.pc = "done" =>
        /\ prune.count > MAX_DEPTH =>
               /\ Cardinality(memories) <= MAX_DEPTH
               /\ \A m \in memories : \A d \in Deleted :
                      m.importance >= d.importance
        /\ prune.count <= MAX_DEPTH =>
               /\ Deleted = {}
               /\ Cardinality(memories) = prune.count

\* two rows were deleted, one of them as important as a row that remains
C15_Witness ==
    /\ prune.pc = "done"
    /\ Cardinality(Deleted) = 2
    /\ Cardinality(memories) = MAX_DEPTH
    /\ \E m \in memories : \E d \in Deleted : m.importance = d.importance
    /\ \E m \in memories : \E d \in Deleted : m.importance > d.importance

\* ------------------------------------------------------------ text_me.py
\* the record of the failure log that send_sms writes for its message
IsRecordOf(record, call_) ==
    /\ record.message_id = OwnMessageId
    /\ record.recipient = call_.message.phone_number
    /\ record.message_body = call_.message.message_body
    /\ record.error_reason = call_.error

SmsOk(http) == http.kind = "response" /\ http.status = 200

\* C16 as stated: every send_sms call returns; on HTTP 200 with
\* success=True, error None and the failure log as it was; on a non-200
\* status, a network error or another exception with success=False, an
\* error, and one more record in the failure log, for that message.
C16_SendSmsLogsEveryFailure ==
    [][sms'.outcome # sms.outcome =>
          /\ sms'.outcome = "return"
          /\ SmsOk(sms.http) =>
                 (sms'.success /\ sms'.error = "None"
                  /\ failure_log' = failure_log)
          /\ ~SmsOk(sms.http) =>
                 (/\ ~sms'.success /\ sms'.error # "None"
                  /\ Len(failure_log') = Len(failure_log) + 1
                  /\ SubSeq(failure_log', 1, Len(failure_log)) = failure_log
                  /\ IsRecordOf(failure_log'[Len(failure_log')], sms'))]_vars

\* the response of line 227 is built: HTTP 200 with a JSON object whose
\* message_id is a string or absent
SmsAccepted(http) == SmsOk(http) /\ http.body \in {"id_string", "no_id"}

\* C16 as amended: every send_sms call returns.  On HTTP 200 with a body
\* that is a JSON object whose message_id is a string or absent it returns
\* success=True and error None and leaves the failure log as it was.  In
\* every other case (a non-200 status, a network error, another exception,
\* a 200 response whose body cannot be used) it returns success=False and an
\* error, and appends one record for that message to the failure log when
\* the log file can be written and nothing when it cannot.
C16_SendSmsLogsFailureIfWritable ==
    [][sms'.outcome # sms.outcome =>
          /\ sms'.outcome = "return"
          /\ SmsAccepted(sms.http) =>
                 (sms'.success /\ sms'.error = "None"
                  /\ failure_log' = failure_log)
          /\ ~SmsAccepted(sms.http) =>
                 (/\ ~sms'.success /\ sms'.error # "None"
                  /\ IF log_writable
                     THEN /\ Len(failure_log') = Len(failure_log) + 1
                          /\ SubSeq(failure_log', 1, Len(failure_log))
                                 = failure_log
                          /\ IsRecordOf(failure_log'[Len(failure_log')], sms')
                     ELSE failure_log' = failure_log)]_vars

\* a 400 response was answered with success=False and its record follows
\* an earlier one in the failure log
C16_Witness ==
    /\ sms.outcome = "return"
    /\ sms.http.kind = "response" /\ sms.http.status = 400
    /\ ~sms.success
    /\ Len(failure_log) = 2
    /\ IsRecordOf(failure_log[2], sms)
    /\ failure_log[2].error_code = 400

\* ------------------------------------------------------ earlier calls
\* C17: the outcome and the result of every call are those of the same
\* call on a new engine, whatever calls the engine has served before.
C17_ResultIndependentOfHistory ==
    /\ Ran("calculate_match_score") =>
           LET r == calculate_match_score(NoVectorizer, call.resume_text,
                        call.job_description, call.max_score)
           IN  r.outcome = call.outcome /\ r.score = call.score
    /\ Ran("extract_missing_skills") =>
           LET r == extract_missing_skills(NoVectorizer, call.resume_text,
                        call.job_description, call.threshold)
           IN  /\ r.outcome = call.outcome
               /\ r.missing_skills = call.missing_skills
               /\ r.matched_skills = call.matched_skills
    /\ Ran("rank_candidates") =>
           LET r == rank_candidates(NoVectorizer, call.candidates,
                        call.job_description, call.max_score)
           IN  r.outcome = call.outcome /\ r.ranked = call.ranked

\* extract_missing_skills has returned a missing term on an engine whose
\* vectorizer held another vocabulary, without that term, when it was called
C17_Witness ==
    /\ Returned("extract_missing_skills")
    /\ call.before # <<>>
    /\ call.before # vectorizer.vocabulary_
    /\ \E t \in call.missing_skills : t \notin Range(call.before)

\* ----------------------------------------------- independence of candidates
\* the values rank_candidates must give candidate c: those of the two
\* functions called for c's resume and the job description on their own
ScoredAlone(r, c) ==
    /\ Derived(r, c)
    /\ r.match_score
           = calculate_match_score(NoVectorizer, ResumeOf(c),
                 call.job_description, call.max_score).score
    /\ r.missing_skills
           = extract_missing_skills(NoVectorizer, ResumeOf(c),
                 call.job_description, DefaultThreshold).missing_skills
    /\ r.matched_skills
           = extract_missing_skills(NoVectorizer, ResumeOf(c),
                 call.job_description, DefaultThreshold).matched_skills

\* C18: the records rank_candidates returns are, one for one, the
\* candidates of the list, each with the match_score, missing_skills and
\* matched_skills that calculate_match_score and extract_missing_skills
\* give for that candidate's resume and the job description alone.
C18_CandidatesScoredIndependently ==
    Returned("rank_candidates") =>
        \E p \in Orderings(Len(call.candidates)) :
            \A i \in 1..Len(call.ranked) :
                ScoredAlone(call.ranked[i], call.candidates[p[i]])

\* two candidates with different resumes and different scores, the first
\* of the list sharing no term with the job description
C18_Witness ==
    /\ Returned("rank_candidates")
    /\ Len(call.ranked) = 2
    /\ ResumeOf(call.candidates[1]) # ResumeOf(call.candidates[2])
    /\ call.ranked[1].match_score > 0
    /\ call.ranked[2].match_score = 0
    /\ call.ranked[1].matched_skills # {}
    /\ call.ranked[2].missing_skills # {}
    /\ Derived(call.ranked[2], call.candidates[1])

AsAlone(t) ==
    LET c == threads[t]
    IN  /\ c.op = "calculate_match_score" =>
               LET r == calculate_match_score(NoVectorizer, c.resume_text,
                            c.job_description, 100)
               IN  r.outcome = c.outcome /\ r.score = c.score
        /\ c.op = "extract_missing_skills" =>
               LET r == extract_missing_skills(NoVectorizer, c.resume_text,
                            c.job_description, DefaultThreshold)
               IN  /\ r.outcome = c.outcome
                   /\ r.missing_skills = c.missing_skills
                   /\ r.matched_skills = c.matched_skills

\* C19: two calls made at the same time on engines of their own end as
\* they end alone; on one shared engine a call ends otherwise only when
\* the feature names it read are not the vocabulary of its own
\* fit_transform, the other call having refitted the vectorizer in
\* between (the witness shows that this happens).
C19_InterferenceOnlyOnSharedEngine ==
    \A t \in DOMAIN threads :
        threads[t].pc = "done" =>
            /\ ~shared => AsAlone(t)
            /\ ~AsAlone(t) =>
                   /\ shared
                   /\ threads[t].op = "extract_missing_skills"
                   /\ threads[t].feature_names # threads[t].columns

\* on a shared engine extract_missing_skills has returned a word that is
\* in neither of its two texts: it comes from the other call's vocabulary
C19_Witness ==
    /\ shared
    /\ \E t \in DOMAIN threads :
           /\ threads[t].pc = "done"
           /\ threads[t].op = "extract_missing_skills"
           /\ threads[t].outcome = "return"
           /\ \E w \in threads[t].matched_skills \cup threads[t].missing_skills :
                  /\ w \notin Range(threads[t].job_description)
                  /\ w \notin Range(threads[t].resume_text)
                  /\ \E u \in DOMAIN threads :
                         u # t /\ w \in Range(threads[u].job_description)

\* ------------------------------------------------------------------ case
\* the lowercase forms of the words of a text that are tokens and no stop
\* words
TokensOf(text) ==
    {Lower(w) : w \in {x \in Range(text) :
                          TokenPattern(Lower(x)) /\ Lower(x) \notin StopWords}}

\* token t is among the matched skills, and no spelling of it among the
\* missing ones
MatchedOnly(t) ==
    /\ t \in call.matched_skills
    /\ \A w \in Range(call.resume_text) \cup Range(call.job_description) :
           Lower(w) = t => w \notin call.missing_skills

\* C21 as stated: whenever extract_missing_skills returns, every token
\* that is no stop word and occurs in both the resume and the job
\* description, in whatever case, is in matched_skills in its lowercase
\* form and in no form in missing_skills.
C21_SharedTokenIsMatched ==
    Returned("extract_missing_skills") =>
        \A t \in TokensOf(call.resume_text)
                    \cap TokensOf(call.job_description) :
            MatchedOnly(t)

\* C21 as amended: whenever extract_missing_skills returns, every token
\* that is no stop word, occurs in both texts in whatever case, and is one
\* of the at most max_features terms the vocabulary keeps, is in
\* matched_skills in its lowercase form and in no form in missing_skills.
C21_SharedVocabularyTokenIsMatched ==
    Returned("extract_missing_skills") =>
        \A t \in TokensOf(call.resume_text)
                    \cap TokensOf(call.job_description) :
            t \in Range(vectorizer.vocabulary_) => MatchedOnly(t)

\* the resume spells "Python" and the job description "python", the two
\* texts hold more terms than the vocabulary keeps, and "python" is matched
C21_Witness ==
    /\ Returned("extract_missing_skills")
    /\ "Python" \in Range(call.resume_text)
    /\ "python" \notin Range(call.resume_text)
    /\ "python" \in Range(call.job_description)
    /\ "Python" \notin Range(call.job_description)
    /\ Len(vectorizer.vocabulary_) = max_features
    /\ TokensOf(call.job_description) \ Range(vectorizer.vocabulary_) # {}
    /\ MatchedOnly("python")

\* ------------------------------------------------------- the caller's list
\* a step in which a call of rank_candidates ends
RankEnds == Pending("rank_candidates") /\ call'.outcome # "pending"

\* C22: when a call of rank_candidates ends, the list it was given holds
\* the same mappings in the same order, each with the keys and the values
\* it had when the call was made.
C22_RankLeavesInputUnchanged ==
    [][RankEnds => call'.candidates = call.candidates]_vars

\* two candidates were ranked in the reverse of their order in the list,
\* and the second one carries a match_score of its own that its record
\* does not have
C22_Witness ==
    /\ Returned("rank_candidates")
    /\ Len(call.candidates) = 2
    /\ "match_score" \in DOMAIN call.candidates[2]
    /\ Derived(call.ranked[1], call.candidates[2])
    /\ Derived(call.ranked[2], call.candidates[1])
    /\ call.ranked[1].match_score # call.candidates[2].match_score
    /\ call.ranked[1].match_score > call.ranked[2].match_score

\* ------------------------------------------------- the engine's vectorizer
\* a step in which MatchingEngine() is constructed
Constructed == engine = "none" /\ engine' = "constructed"

\* a step in which a call on the engine ends
OperationEnds == engine = "constructed" /\ call.outcome = "pending"
                     /\ call'.outcome # "pending"

\* the engine holds after the step the vectorizer object it held before
SameVectorizer ==
    vectorizer'.loaded /\ vectorizer'.instance = vectorizer.instance

\* C23 as stated: construction leaves _vectorizer and _tfidf_matrix None;
\* with the library installed, the engine holds a vectorizer once its first
\* operation has ended; a vectorizer the engine holds is never replaced by
\* another object nor reset to None; and _tfidf_matrix is None after every
\* step.
C23_FirstOperationCreatesVectorizer ==
    [][/\ Constructed => (~vectorizer'.loaded /\ tfidf_matrix' = "None")
       /\ (OperationEnds /\ sklearn_installed) => vectorizer'.loaded
       /\ vectorizer.loaded => SameVectorizer
       /\ tfidf_matrix' = "None"]_vars

\* C23 as amended: construction leaves _vectorizer and _tfidf_matrix None;
\* with the library installed, the engine holds a vectorizer once an
\* operation other than rank_candidates of an empty list has ended, and
\* any other operation leaves _vectorizer as it was; a vectorizer the
\* engine holds is never replaced by another object nor reset to None; and
\* _tfidf_matrix is None after every step.
C23_FirstFitCreatesVectorizer ==
    [][/\ Constructed => (~vectorizer'.loaded /\ tfidf_matrix' = "None")
       /\ (OperationEnds /\ sklearn_installed /\ NeedsLibrary)
              => vectorizer'.loaded
       /\ (OperationEnds /\ ~(sklearn_installed /\ NeedsLibrary))
              => vectorizer' = vectorizer
       /\ vectorizer.loaded => SameVectorizer
       /\ tfidf_matrix' = "None"]_vars

\* a call has ended on an engine that had already fitted its vectorizer
\* on other terms: the engine holds the first vectorizer it made, fitted
\* anew, and _tfidf_matrix is None
C23_Witness ==
    /\ Returned("extract_missing_skills")
    /\ call.before # <<>>
    /\ call.before # vectorizer.vocabulary_
    /\ vectorizer.loaded
    /\ vectorizer.instance = 1
    /\ tfidf_matrix = "None"

\* ------------------------------------------------- score and skill report
\* C24: whenever extract_missing_skills returns for two texts, then for
\* every positive max_score calculate_match_score returns for the same
\* texts, and its score is positive exactly when the matched set is not
\* empty.
C24_ScorePositiveIffMatched ==
    Returned("extract_missing_skills") =>
        \A m \in {x \in MaxScores : x > 0} :
            LET s == calculate_match_score(NoVectorizer, call.resume_text,
                         call.job_description, m)
            IN  /\ s.outcome = "return"
                /\ s.score > 0 <=> call.matched_skills # {}

\* a job description that shares a term with the resume and holds a term
\* the resume lacks: a matched skill, a missing skill, and a score above
\* 0 and under max_score
C24_Witness ==
    /\ Returned("extract_missing_skills")
    /\ call.matched_skills # {}
    /\ call.missing_skills # {}
    /\ LET s == calculate_match_score(NoVectorizer, call.resume_text,
                    call.job_description, 100)
       IN  s.score > 0 /\ s.score < 100 * SCALE

\* ------------------------------------------------------ swapped arguments
\* the three sets have no element in common, two by two
PairwiseDisjoint(x, y, z) ==
    x \cap y = {} /\ x \cap z = {} /\ y \cap z = {}

\* C25 as stated: whenever extract_missing_skills(a, b) returns, the call
\* with the arguments swapped returns the same matched set, its missing
\* set is the set of tokens of a that are not tokens of b, and the two
\* missing sets and the matched set are pairwise disjoint.
C25_SwapExchangesRoles ==
    Returned("extract_missing_skills") =>
        LET r == extract_missing_skills(NoVectorizer, call.job_description,
                     call.resume_text, call.threshold)
        IN  /\ r.outcome = "return"
            /\ r.matched_skills = call.matched_skills
            /\ r.missing_skills = TokensOf(call.resume_text)
                                      \ TokensOf(call.job_description)
            /\ PairwiseDisjoint(call.missing_skills, r.missing_skills,
                                call.matched_skills)

\* C25 as amended: whenever extract_missing_skills(a, b) returns, the call
\* with the arguments swapped returns the same matched set, its missing
\* set is the set of tokens of a that the vocabulary keeps and that are
\* not tokens of b, and the two missing sets and the matched set are
\* pairwise disjoint.
C25_SwapExchangesVocabularyRoles ==
    Returned("extract_missing_skills") =>
        LET r == extract_missing_skills(NoVectorizer, call.job_description,
                     call.resume_text, call.threshold)
        IN  /\ r.outcome = "return"
            /\ r.matched_skills = call.matched_skills
            /\ r.missing_skills
                   = (TokensOf(call.resume_text)
                          \cap Range(vectorizer.vocabulary_))
                         \ TokensOf(call.job_description)
            /\ PairwiseDisjoint(call.missing_skills, r.missing_skills,
                                call.matched_skills)

\* the job description holds a term the resume lacks, the resume a term
\* the job description lacks, the two share a term, and the vocabulary has
\* cut a term of the resume
C25_Witness ==
    /\ Returned("extract_missing_skills")
    /\ call.missing_skills # {}
    /\ call.matched_skills # {}
    /\ (TokensOf(call.resume_text) \cap Range(vectorizer.vocabulary_))
           \ TokensOf(call.job_description) # {}
    /\ TokensOf(call.resume_text) \ Range(vectorizer.vocabulary_) # {}

\* -------------------------------------------------------- all or nothing
\* what scoring candidate c on its own does: the result of
\* calculate_match_score if that raises, else that of extract_missing_skills
ScoringOf(c) ==
    LET s == calculate_match_score(NoVectorizer, ResumeOf(c),
                 call.job_description, call.max_score)
    IN  IF s.outcome # "return"
        THEN s
        ELSE extract_missing_skills(NoVectorizer, ResumeOf(c),
                 call.job_description, DefaultThreshold)

\* the candidates of the call whose scoring raises
Failing ==
    {i \in 1..Len(call.candidates) :
         ScoringOf(call.candidates[i]).outcome # "return"}

\* C26: when a call of rank_candidates ends and the scoring of one of its
\* candidates raises, the call has raised the exception of the first such
\* candidate, it has returned no list, and the list it was given is as it
\* was when the call was made.
C26_RankAllOrNothing ==
    [][(RankEnds /\ Failing # {}) =>
           \E i \in Failing :
               /\ \A j \in Failing : i <= j
               /\ call'.outcome = ScoringOf(call.candidates[i]).outcome
               /\ call'.message = ScoringOf(call.candidates[i]).message
               /\ call'.ranked = <<>>
               /\ call'.candidates = call.candidates]_vars

\* rank_candidates raised ValueError for its second candidate after the
\* first one, which carries a match_score of its own, had been scored
C26_Witness ==
    /\ Ran("rank_candidates")
    /\ call.outcome = "ValueError"
    /\ call.ranked = <<>>
    /\ Len(call.candidates) = 2
    /\ Failing = {2}
    /\ "match_score" \in DOMAIN call.candidates[1]

\* a call of a list tool has returned or raised
ListReturned == listing.pc = "returned"

\* the first call of the client has returned or raised
FirstReturned == ListReturned /\ listing.calls = 1

\* seq is the beginning of the item list
IsPrefix(seq, items) ==
    Len(seq) <= Len(items) /\ seq = SubSeq(items, 1, Len(seq))

\* the number of pages of page_size items that hold n items, one page
\* for an empty list
PagesOf(n, page_size) ==
    IF n = 0 THEN 1 ELSE (n + page_size - 1) \div page_size

\* C27: for page_size >= 1, a client that starts with cursor=None and
\* feeds each next_cursor into the next call never sees a call raise,
\* has at every moment received a beginning of the item list in order
\* (nothing skipped, nothing repeated), makes no more calls than the list
\* has pages, and once a call returns next_cursor None has received
\* exactly the item list.
C27_WalkFromNoneCoversList ==
    (listing.first.none /\ listing.page_size >= 1) =>
        /\ listing.outcome \in {"pending", "return"}
        /\ IsPrefix(listing.received, listing.items)
        /\ listing.calls <= PagesOf(Len(listing.items), listing.page_size)
        /\ (ListReturned /\ listing.next_cursor.none) =>
               listing.received = listing.items
        /\ (ListReturned /\ ~listing.next_cursor.none) =>
               Len(listing.received) < Len(listing.items)

\* C27 witness: a walk from cursor=None that took three calls or more has
\* ended with next_cursor None and the whole list received.
C27_Witness ==
    /\ listing.first.none
    /\ ListReturned
    /\ listing.next_cursor.none
    /\ listing.calls >= 3
    /\ listing.items # <<>>
    /\ listing.received = listing.items

\* C28: a call with a cursor that int() rejects does not raise and
\* returns the first page and the next_cursor of a call with cursor=None:
\* the first page_size items, and str(page_size) when more items follow.
C28_BadCursorIsFirstPage ==
    (FirstReturned /\ ~listing.first.none /\ int(listing.first.text).raised)
        =>
        /\ listing.outcome = "return"
        /\ listing.page_items
               = SubSeq(listing.items, 1,
                        Min(listing.page_size, Len(listing.items)))
        /\ listing.next_cursor
               = IF listing.page_size < Len(listing.items)
                 THEN Cursor(Str(listing.page_size))
                 ELSE NoCursor

\* C28 witness: a call with a cursor that is no integer has returned a
\* first page that is followed by more items.
C28_Witness ==
    /\ FirstReturned
    /\ ~listing.first.none
    /\ int(listing.first.text).raised
    /\ listing.outcome = "return"
    /\ listing.page_items # <<>>
    /\ ~listing.next_cursor.none

\* C29: for every cursor that parses as an integer, negative ones and ones
\* past the end included, a call that returns a next_cursor returns a page
\* of exactly page_size items, and a call that returns next_cursor None
\* returns all the items from the cursor position on.
C29_PageIsFullOrLast ==
    (FirstReturned /\ ~listing.first.none /\ ~int(listing.first.text).raised)
        =>
        /\ listing.outcome = "return"
        /\ ~listing.next_cursor.none =>
               Len(listing.page_items) = listing.page_size
        /\ listing.next_cursor.none =>
               listing.page_items
                   = Slice(listing.items, int(listing.first.text).value,
                           Len(listing.items))

\* the remember call has returned the 'Remembered' line of both tasks
BothRemembered ==
    /\ remember.outcome = "return"
    /\ \A t \in Contents : remember.tasks[t].result = "Remembered"

\* C30: when remember has run add_memory concurrently for two contents
\* with similar embeddings and both tasks have reported 'Remembered', at
\* least one row holding their content is left in the table.
C30_SimilarContentsSurvive ==
    (remember.similar /\ BothRemembered) =>
        \E m \in memories : m.content \cap Contents # {}
====
